---- MODULE Spec2Model ----
(***************************************************************************)
(* Pose-to-garment tracking core of the virtual try-on viewer.             *)
(*                                                                         *)
(* Three mapper classes of the repository are modelled side by side; one   *)
(* of them is deployed as the global skeletonMapper in a given run:        *)
(*   "ema"    EnhancedSkeletonMapper, src/frontend/js/skeleton-mapper.js   *)
(*            lines 3-237 (EMA smoothing, forced show after 3 frames)      *)
(*   "simple" SkeletonMapper, src/frontend/js/skeleton-mapper.js lines     *)
(*            240-442 (EMA smoothing, initial position timer)              *)
(*   "kalman" EnhancedSkeletonMapper, src/unnamed/part_004 (Kalman         *)
(*            filters, confidence history, throttle)                       *)
(*                                                                         *)
(* Numbers are fixed point, in thousandths: 1000 stands for 1.0, angles    *)
(* are in milliradians, times in milliseconds.  NaN and undefined are      *)
(* values of their own, propagated by the arithmetic as JavaScript does.   *)
(***************************************************************************)
EXTENDS Integers, Sequences, FiniteSets, TLC

VARIABLES
    variant,    \* which mapper class is the global skeletonMapper
    mapper,     \* the fields of the mapper object
    jacket,     \* modelLoader.jacketModel: loaded flag, transform, visible
    meshes,     \* modelLoader.jacketMeshes: visible / frustumCulled
    timers,     \* number of pending setTimeout(setInitialPosition) callbacks
    now,        \* performance.now() as last read by the throttle
    calls,      \* number of calls made on the mapper so far
    last,       \* the last call on the mapper: operation, pose, outcome
    calcIn,     \* inputs of the pure calculations
    calcOut,    \* result of the last pure calculation
    smoothing,  \* one smoothing memory fed the same raw value frame after frame
    estimate,   \* a pose and the confidence or quality last computed for it
    camera,     \* cameraManager.video and the aspect of the scene camera
    renderer,   \* the fields of the composite renderer, its timers and draws
    fabric,     \* the materials manager and its pending applyFabric
    pipeline,   \* the AI pipeline, its socket and its timers
    selector,   \* the keyframe selector, its clock and its last answer
    cameraManager,  \* the camera manager and the await its init() is at
    fabricSelector  \* the fabric selector and its applyFabric() calls in flight

vars == <<variant, mapper, jacket, meshes, timers, now, calls, last, calcIn, calcOut,
          smoothing, estimate, camera, renderer, fabric, pipeline, selector,
          cameraManager, fabricSelector>>

\* the variables of the mapper and the garment, of the pure calculations, and
\* of the other components
mapperVars == <<variant, mapper, jacket, meshes, timers, now, calls, last>>
calcVars == <<calcIn, calcOut>>
uiVars == <<cameraManager, fabricSelector>>
aiVars == <<pipeline, selector, uiVars>>
others == <<smoothing, estimate, camera, renderer, fabric, aiVars>>
sceneVars == <<camera, renderer, fabric>>

-----------------------------------------------------------------------------
(* Bounds *)

\* the number of calls made on the mapper in a run
MaxCalls == 5
\* the largest landmark coordinate given to the pure calculations (12 = 12.0)
MaxCoord == 12

\* the render loop is followed for this many ms
MaxTime == 125

\* init() of the renderer is called at most this often
MaxInits == 2

\* applyFabric() is called at most this often
MaxApplies == 2

-----------------------------------------------------------------------------
(* Fixed-point arithmetic with NaN and undefined *)

\* the fixed-point unit: ONE stands for 1.0
ONE == 10 * 100
\* Math.PI
PI == 3142
\* NaN and undefined, outside the range of the numbers
NaN == 0 - 2000000000
Undefined == NaN - 1

IsNum(a) == a # NaN /\ a # Undefined

Add(a, b) == IF IsNum(a) /\ IsNum(b) THEN a + b ELSE NaN
Sub(a, b) == IF IsNum(a) /\ IsNum(b) THEN a - b ELSE NaN
Neg(a) == IF IsNum(a) THEN 0 - a ELSE NaN
\* product of two fixed-point numbers, rounded down
Mul(a, b) == IF IsNum(a) /\ IsNum(b) THEN (a * b) \div ONE ELSE NaN
\* product with an integer literal, quotient by an integer literal
Times(a, k) == IF IsNum(a) THEN a * k ELSE NaN
Over(a, k) == IF IsNum(a) THEN a \div k ELSE NaN
Abs(a) == IF IsNum(a) THEN (IF a < 0 THEN 0 - a ELSE a) ELSE NaN
\* comparisons with NaN are false
Lt(a, b) == IsNum(a) /\ IsNum(b) /\ a < b
Gt(a, b) == IsNum(a) /\ IsNum(b) /\ a > b
\* JavaScript's (v || 0) on a number
OrZero(a) == IF IsNum(a) THEN a ELSE 0

RECURSIVE SqrtIter(_, _)
SqrtIter(n, r) ==
    LET r2 == (r + n \div r) \div 2
    IN  IF r2 >= r THEN r ELSE SqrtIter(n, r2)

\* Math.sqrt of a sum of squares of fixed-point numbers (the argument is in
\* millionths, the result in thousandths, rounded down)
Sqrt(n) == IF ~IsNum(n) THEN NaN ELSE IF n <= 0 THEN 0 ELSE SqrtIter(n, n)

Sq(a) == IF IsNum(a) THEN a * a ELSE NaN

\* Math.atan of a ratio t in [0, 1]: t*pi/4 + 0.273*t*(1-t), within 0.004 rad
AtanUnit(t) == (t * 785) \div ONE + (273 * t * (ONE - t)) \div (ONE * ONE)

\* Math.atan2 for y >= 0, x >= 0, not both 0
AtanQuadrant(y, x) ==
    IF y <= x THEN AtanUnit((y * ONE) \div x)
    ELSE 1571 - AtanUnit((x * ONE) \div y)

\* Math.atan2(y, x) in milliradians
Atan2(y, x) ==
    IF ~IsNum(y) \/ ~IsNum(x) THEN NaN
    ELSE IF y = 0 /\ x = 0 THEN 0
    ELSE LET ay == IF y < 0 THEN 0 - y ELSE y
             ax == IF x < 0 THEN 0 - x ELSE x
             q == AtanQuadrant(ay, ax)
             h == IF x >= 0 THEN q ELSE PI - q
         IN  IF y < 0 THEN 0 - h ELSE h

Vec3(a, b, c) == [x |-> a, y |-> b, z |-> c]
\* a number held where an object is expected: reading .x of it gives undefined
Scalar(a) == [num |-> a]
Prop(v, k) == IF k \in DOMAIN v THEN v[k] ELSE Undefined

-----------------------------------------------------------------------------
(* Utils, not part of the sources at hand: modelled from the design text *)

\* Utils.clamp(value, min, max) = Math.min(Math.max(value, min), max)
clamp(value, min, max) ==
    IF ~IsNum(value) \/ ~IsNum(min) \/ ~IsNum(max) THEN NaN
    ELSE LET lo == IF value < min THEN min ELSE value
         IN  IF lo > max THEN max ELSE lo

\* Utils.ema(current, previous, alpha) = previous + alpha * (current - previous)
ema(current, previous, alpha) == Add(previous, Mul(alpha, Sub(current, previous)))

-----------------------------------------------------------------------------
(* Landmarks and poses *)

\* CONFIG.SKELETON.LANDMARKS: the indices the mappers read
LANDMARKS ==
    {"NOSE", "LEFT_SHOULDER", "RIGHT_SHOULDER", "LEFT_ELBOW", "RIGHT_ELBOW",
     "LEFT_WRIST", "RIGHT_WRIST", "LEFT_HIP", "RIGHT_HIP"}

\* a landmark {x, y, z, visibility}
Pt(px, py, pz, v) == [present |-> TRUE, x |-> px, y |-> py, z |-> pz, visibility |-> v]
\* landmarks[i] is undefined or null
Missing ==
    [present |-> FALSE, x |-> Undefined, y |-> Undefined, z |-> Undefined,
     visibility |-> Undefined]
\* landmarks[i] is an object without coordinates: {}
Malformed ==
    [present |-> TRUE, x |-> Undefined, y |-> Undefined, z |-> Undefined,
     visibility |-> Undefined]

\* the symmetric frontal pose, every key point fully visible
FrontLandmarks ==
    [k \in LANDMARKS |->
        CASE k = "NOSE"           -> Pt(500, 300, -100, 1000)
          [] k = "LEFT_SHOULDER"  -> Pt(400, 500, 0, 1000)
          [] k = "RIGHT_SHOULDER" -> Pt(600, 500, 0, 1000)
          [] k = "LEFT_ELBOW"     -> Pt(350, 700, 0, 1000)
          [] k = "RIGHT_ELBOW"    -> Pt(650, 700, 0, 1000)
          [] k = "LEFT_WRIST"     -> Pt(350, 850, 0, 1000)
          [] k = "RIGHT_WRIST"    -> Pt(650, 850, 0, 1000)
          [] k = "LEFT_HIP"       -> Pt(420, 900, 0, 1000)
          [] k = "RIGHT_HIP"      -> Pt(580, 900, 0, 1000)]

\* a turned, tilted pose seen badly: every visibility 0.2
LowLandmarks ==
    [k \in LANDMARKS |->
        CASE k = "NOSE"           -> Pt(480, 250, -300, 200)
          [] k = "LEFT_SHOULDER"  -> Pt(300, 450, -200, 200)
          [] k = "RIGHT_SHOULDER" -> Pt(700, 550, 100, 200)
          [] k = "LEFT_ELBOW"     -> Pt(250, 650, -200, 200)
          [] k = "RIGHT_ELBOW"    -> Pt(750, 750, 100, 200)
          [] k = "LEFT_WRIST"     -> Pt(250, 800, -200, 200)
          [] k = "RIGHT_WRIST"    -> Pt(750, 900, 100, 200)
          [] k = "LEFT_HIP"       -> Pt(350, 850, -100, 200)
          [] k = "RIGHT_HIP"      -> Pt(650, 950, 50, 200)]

\* the pose values update() is called with
PoseIds == {"null", "nolandmarks", "short", "front", "low", "noRightShoulder", "malformed"}

\* poseData as update() sees it: null or an object, with or without a
\* landmarks array, the array's length and the entries the mappers read
PoseData(id) ==
    CASE id = "null" ->
            [isNull |-> TRUE, hasLandmarks |-> FALSE, length |-> 0,
             landmarks |-> [k \in LANDMARKS |-> Missing]]
      [] id = "nolandmarks" ->
            [isNull |-> FALSE, hasLandmarks |-> FALSE, length |-> 0,
             landmarks |-> [k \in LANDMARKS |-> Missing]]
      [] id = "short" ->
            [isNull |-> FALSE, hasLandmarks |-> TRUE, length |-> 17,
             landmarks |-> [k \in LANDMARKS |->
                               IF k = "LEFT_WRIST" \/ k = "RIGHT_WRIST"
                                  \/ k = "LEFT_HIP" \/ k = "RIGHT_HIP"
                               THEN Missing ELSE FrontLandmarks[k]]]
      [] id = "front" ->
            [isNull |-> FALSE, hasLandmarks |-> TRUE, length |-> 33,
             landmarks |-> FrontLandmarks]
      [] id = "low" ->
            [isNull |-> FALSE, hasLandmarks |-> TRUE, length |-> 33,
             landmarks |-> LowLandmarks]
      [] id = "noRightShoulder" ->
            [isNull |-> FALSE, hasLandmarks |-> TRUE, length |-> 33,
             landmarks |-> [FrontLandmarks EXCEPT !["RIGHT_SHOULDER"] = Missing]]
      [] id = "malformed" ->
            [isNull |-> FALSE, hasLandmarks |-> TRUE, length |-> 33,
             landmarks |-> [FrontLandmarks EXCEPT !["LEFT_SHOULDER"] = Malformed]]

\* the result of a call that may raise: a value, or a TypeError
Ok(v) == [thrown |-> FALSE, value |-> v]
Thrown == [thrown |-> TRUE, value |-> 0]

-----------------------------------------------------------------------------
(* EnhancedSkeletonMapper with EMA smoothing ("ema") *)

EmaMinScale == 8000
EmaMaxScale == 30000
EmaDefaultScale == 10000

EmaCalibration ==
    [scaleMultiplier |-> 25000, depthOffset |-> 500, depthMultiplier |-> 2000,
     verticalOffset |-> -2000, horizontalOffset |-> 0, smoothingAlpha |-> 150]

EmaSmoothBuffer ==
    [position |-> Vec3(0, 0, 0), rotation |-> Vec3(0, 0, 0), scale |-> Scalar(ONE)]

calculateShoulderPosition(landmarks, calibration) ==
    LET leftShoulder == landmarks["LEFT_SHOULDER"]
        rightShoulder == landmarks["RIGHT_SHOULDER"]
        nose == landmarks["NOSE"]
        cx == Over(Add(leftShoulder.x, rightShoulder.x), 2)
        cy == Over(Add(leftShoulder.y, rightShoulder.y), 2)
        cz == Over(Add(leftShoulder.z, rightShoulder.z), 2)
        avgDepth == IF nose.present
                    THEN Over(Add(Add(leftShoulder.z, rightShoulder.z), nose.z), 3)
                    ELSE cz
    IN  IF ~leftShoulder.present \/ ~rightShoulder.present
        THEN Vec3(0, 0, calibration.depthOffset)
        ELSE Vec3(Add(Times(Sub(cx, 500), 20), calibration.horizontalOffset),
                  Add(Neg(Times(Sub(cy, 500), 20)), calibration.verticalOffset),
                  Add(calibration.depthOffset, Mul(avgDepth, calibration.depthMultiplier)))

\* calculateBodyRotation() with the arguments of the roll's atan2 exchanged
calculateBodyRotation_swapped(landmarks) ==
    LET leftShoulder == landmarks["LEFT_SHOULDER"]
        rightShoulder == landmarks["RIGHT_SHOULDER"]
        dx == Sub(rightShoulder.x, leftShoulder.x)
        dy == Sub(rightShoulder.y, leftShoulder.y)
        rollAngle == Atan2(dx, dy)
        shoulderWidth == Sqrt(Add(Sq(dx), Sq(dy)))
        depthDiff == Sub(rightShoulder.z, leftShoulder.z)
        yawAngle == Over(Times(Atan2(depthDiff, shoulderWidth), 3), 2)
    IN  IF ~leftShoulder.present \/ ~rightShoulder.present
        THEN Vec3(PI, PI, 0)
        ELSE Vec3(PI, Add(PI, yawAngle), Neg(rollAngle))

calculateBodyRotation(landmarks) ==
    LET leftShoulder == landmarks["LEFT_SHOULDER"]
        rightShoulder == landmarks["RIGHT_SHOULDER"]
        dx == Sub(rightShoulder.x, leftShoulder.x)
        dy == Sub(rightShoulder.y, leftShoulder.y)
        rollAngle == Atan2(dy, dx)
        shoulderWidth == Sqrt(Add(Sq(dx), Sq(dy)))
        depthDiff == Sub(rightShoulder.z, leftShoulder.z)
        yawAngle == Over(Times(Atan2(depthDiff, shoulderWidth), 3), 2)
    IN  IF ~leftShoulder.present \/ ~rightShoulder.present
        THEN Vec3(PI, PI, 0)
        ELSE Vec3(PI, Add(PI, yawAngle), Neg(rollAngle))

\* calculateShoulderScale() returning the scale without clamping it
calculateShoulderScale_unclamped(landmarks, calibration) ==
    LET leftShoulder == landmarks["LEFT_SHOULDER"]
        rightShoulder == landmarks["RIGHT_SHOULDER"]
        dx == Sub(rightShoulder.x, leftShoulder.x)
        dy == Sub(rightShoulder.y, leftShoulder.y)
        dz == Sub(rightShoulder.z, leftShoulder.z)
        shoulderWidth == Sqrt(Add(Add(Sq(dx), Sq(dy)), Sq(dz)))
    IN  IF ~leftShoulder.present \/ ~rightShoulder.present
        THEN EmaDefaultScale
        ELSE Mul(shoulderWidth, calibration.scaleMultiplier)

calculateShoulderScale(landmarks, calibration) ==
    LET leftShoulder == landmarks["LEFT_SHOULDER"]
        rightShoulder == landmarks["RIGHT_SHOULDER"]
        dx == Sub(rightShoulder.x, leftShoulder.x)
        dy == Sub(rightShoulder.y, leftShoulder.y)
        dz == Sub(rightShoulder.z, leftShoulder.z)
        shoulderWidth == Sqrt(Add(Add(Sq(dx), Sq(dy)), Sq(dz)))
        scale == Mul(shoulderWidth, calibration.scaleMultiplier)
    IN  IF ~leftShoulder.present \/ ~rightShoulder.present
        THEN EmaDefaultScale
        ELSE clamp(scale, EmaMinScale, EmaMaxScale)

\* the smoothing buffer after applySmoothing(current, key); the value it
\* returns is the new buffer's entry for key
applySmoothing(smoothBuffer, current, key, alpha) ==
    LET prev == smoothBuffer[key]
        smoothed == Vec3(ema(current.x, Prop(prev, "x"), alpha),
                         ema(current.y, Prop(prev, "y"), alpha),
                         ema(current.z, Prop(prev, "z"), alpha))
    IN  [smoothBuffer EXCEPT ![key] = smoothed]

EmaKeyPoints == {"LEFT_SHOULDER", "RIGHT_SHOULDER", "LEFT_ELBOW", "RIGHT_ELBOW", "NOSE"}

RECURSIVE SumOver(_, _)
\* the sum of f over the set S of keys
SumOver(f, S) ==
    IF S = {} THEN 0
    ELSE LET k == CHOOSE e \in S : TRUE IN Add(f[k], SumOver(f, S \ {k}))

\* calculateConfidence() reading landmark.visibility without testing landmark
calculateConfidence_unguarded(landmarks) ==
    LET valid == {k \in EmaKeyPoints : landmarks[k].visibility # Undefined}
        totalVisibility == SumOver([k \in valid |-> landmarks[k].visibility], valid)
    IN  IF \E k \in EmaKeyPoints : ~landmarks[k].present
        THEN Thrown
        ELSE Ok(IF Cardinality(valid) > 0
                THEN Over(totalVisibility, Cardinality(valid)) ELSE 0)

\* calculateConfidence(landmarks): the mean visibility of the key points that
\* carry one; every landmark is tested before its visibility is read
calculateConfidence(landmarks) ==
    LET valid == {k \in EmaKeyPoints :
                     landmarks[k].present /\ landmarks[k].visibility # Undefined}
        totalVisibility == SumOver([k \in valid |-> landmarks[k].visibility], valid)
    IN  Ok(IF Cardinality(valid) > 0 THEN Over(totalVisibility, Cardinality(valid)) ELSE 0)

-----------------------------------------------------------------------------
(* ModelLoader: the garment root and its meshes *)

NumMeshes == 2

\* CONFIG.JACKET.SCALE
JacketScale == 1000

\* modelLoader.jacketModel is null
NoJacket ==
    [loaded |-> FALSE, position |-> Vec3(0, 0, 0), rotation |-> Vec3(0, 0, 0),
     scale |-> Vec3(ONE, ONE, ONE), visible |-> FALSE]

\* modelLoader.getMeshes()
getMeshes(jacketMeshes) == Ok(jacketMeshes)

\* the load callback of loadJacket: the garment meshes are made visible and
\* exempt from culling, the root gets the configured transform and is hidden
LoadJacket ==
    /\ ~jacket.loaded
    /\ jacket' = [loaded |-> TRUE, position |-> Vec3(0, 0, 0),
                  rotation |-> Vec3(0, 0, 0),
                  scale |-> Vec3(JacketScale, JacketScale, JacketScale),
                  visible |-> FALSE]
    /\ meshes' = [i \in 1..NumMeshes |->
                     [visible |-> TRUE, frustumCulled |-> FALSE,
                      material |-> "original", renderOrder |-> 0]]
    /\ UNCHANGED <<variant, mapper, timers, now, calls, last, calcIn, calcOut, others>>

\* the record of a call on the mapper: the operation, the pose given, how
\* the call ended, whether any update has been accepted so far (accepted)
\* and whether one has been since the smoothing memory was last reset (tracked)
Call(op, pose, outcome) ==
    [op |-> op, pose |-> pose, outcome |-> outcome,
     accepted |-> last.accepted \/ outcome = "accepted",
     tracked |-> CASE outcome = "accepted" -> TRUE
                   [] op = "reset" \/ outcome = "caught" -> FALSE
                   [] OTHER -> last.tracked]

\* update(poseData) has left the mapper and the garment as r says
Updated(r, id) ==
    /\ mapper' = r.mapper
    /\ jacket' = r.jacket
    /\ last' = Call("update", id, r.outcome)

\* update() without the test of this.initialized
EarlyReturn_noInitCheck(m, poseData) == poseData.isNull

\* update(): !this.initialized || !poseData
EarlyReturn(m, poseData) == ~m.initialized \/ poseData.isNull

\* update() without the test of landmarks.length
HasLandmarks_noLengthCheck(poseData) == poseData.hasLandmarks

\* update(): landmarks && landmarks.length >= 33
HasLandmarks(poseData) == poseData.hasLandmarks /\ poseData.length >= 33

\* jacket.position.set / rotation.set / scale.set of the smoothed values
ApplyTransform(j, pos, rot, s) ==
    [j EXCEPT !.position = pos, !.rotation = rot, !.scale = Vec3(s, s, s)]

-----------------------------------------------------------------------------
(* EnhancedSkeletonMapper ("ema"): operations *)

\* the frame at which update() forces the garment visible
EmaShowAfter == 3

EmaMapper ==
    [width |-> 0, height |-> 0, initialized |-> FALSE, lastPose |-> "null",
     hasShownJacket |-> FALSE, updateCount |-> 0, smoothBuffer |-> EmaSmoothBuffer,
     calibration |-> EmaCalibration, isTracking |-> FALSE, minConfidence |-> 300]

Ema_init ==
    /\ variant = "ema"
    /\ calls < MaxCalls
    /\ mapper' = [mapper EXCEPT !.width = 640, !.height = 480, !.initialized = TRUE]
    /\ calls' = calls + 1
    /\ last' = Call("init", "-", "done")
    /\ UNCHANGED <<variant, jacket, meshes, timers, now, calcIn, calcOut, others>>

\* the try block of update() without its visibility assignment
Ema_track_noShow(m, j, id) ==
    LET landmarks == PoseData(id).landmarks
        alpha == m.calibration.smoothingAlpha
        position == calculateShoulderPosition(landmarks, m.calibration)
        rotation == calculateBodyRotation(landmarks)
        scale == calculateShoulderScale(landmarks, m.calibration)
        b1 == applySmoothing(m.smoothBuffer, position, "position", alpha)
        b2 == applySmoothing(b1, rotation, "rotation", alpha)
        b3 == applySmoothing(b2, Vec3(scale, scale, scale), "scale", alpha)
    IN  [mapper |-> [m EXCEPT !.smoothBuffer = b3, !.isTracking = TRUE, !.lastPose = id],
         jacket |-> ApplyTransform(j, b3.position, b3.rotation, b3.scale.x)]

\* the mapper and the garment after the try block of update(): the three
\* calculations, the three smoothings, the transform, visibility and flags
Ema_track(m, j, id) ==
    LET landmarks == PoseData(id).landmarks
        alpha == m.calibration.smoothingAlpha
        position == calculateShoulderPosition(landmarks, m.calibration)
        rotation == calculateBodyRotation(landmarks)
        scale == calculateShoulderScale(landmarks, m.calibration)
        b1 == applySmoothing(m.smoothBuffer, position, "position", alpha)
        b2 == applySmoothing(b1, rotation, "rotation", alpha)
        b3 == applySmoothing(b2, Vec3(scale, scale, scale), "scale", alpha)
    IN  [mapper |-> [m EXCEPT !.smoothBuffer = b3, !.isTracking = TRUE, !.lastPose = id],
         jacket |-> [ApplyTransform(j, b3.position, b3.rotation, b3.scale.x)
                        EXCEPT !.visible = TRUE]]

\* update(poseData) on mapper m and garment j: the mapper and the garment it
\* leaves, and how the call ended
Ema_updated(m, j, id) ==
    LET poseData == PoseData(id)
        counted == [m EXCEPT !.updateCount = @ + 1]
        show == ~counted.hasShownJacket /\ counted.updateCount > EmaShowAfter
        shown == IF show THEN [counted EXCEPT !.hasShownJacket = TRUE] ELSE counted
        visible == IF show THEN [j EXCEPT !.visible = TRUE] ELSE j
        confidence == calculateConfidence(poseData.landmarks)
        tracked == Ema_track(shown, visible, id)
    IN  IF EarlyReturn(m, poseData) \/ ~HasLandmarks(poseData)
        THEN [mapper |-> m, jacket |-> j, outcome |-> "ignored"]
        ELSE IF ~j.loaded
        THEN [mapper |-> counted, jacket |-> j, outcome |-> "nomodel"]
        ELSE IF confidence.thrown
        THEN [mapper |-> shown, jacket |-> visible, outcome |-> "thrown"]
        ELSE [mapper |-> tracked.mapper, jacket |-> tracked.jacket,
              outcome |-> "accepted"]

Ema_update(id) ==
    /\ variant = "ema"
    /\ calls < MaxCalls
    /\ calls' = calls + 1
    /\ Updated(Ema_updated(mapper, jacket, id), id)
    /\ UNCHANGED <<variant, meshes, timers, now, calcIn, calcOut, others>>

Ema_forceShowJacket ==
    /\ variant = "ema"
    /\ calls < MaxCalls
    /\ calls' = calls + 1
    /\ IF jacket.loaded
       THEN /\ jacket' = [jacket EXCEPT !.visible = TRUE]
            /\ mapper' = [mapper EXCEPT !.hasShownJacket = TRUE]
       ELSE UNCHANGED <<jacket, mapper>>
    /\ last' = Call("forceShowJacket", "-", "done")
    /\ UNCHANGED <<variant, meshes, timers, now, calcIn, calcOut, others>>

Ema_reset ==
    /\ variant = "ema"
    /\ calls < MaxCalls
    /\ calls' = calls + 1
    /\ mapper' = [mapper EXCEPT !.smoothBuffer = EmaSmoothBuffer, !.lastPose = "null",
                                !.isTracking = FALSE, !.hasShownJacket = FALSE,
                                !.updateCount = 0]
    /\ last' = Call("reset", "-", "done")
    /\ UNCHANGED <<variant, jacket, meshes, timers, now, calcIn, calcOut, others>>

\* Object.assign(target, params)
ObjectAssign(target, params) ==
    [k \in DOMAIN target \cup DOMAIN params |->
        IF k \in DOMAIN params THEN params[k] ELSE target[k]]

\* the partial calibration records updateCalibration() is called with
CalibrationParams ==
    {[scaleMultiplier |-> 14000, smoothingAlpha |-> 1000],
     [minScale |-> 1000, maxScale |-> 2000]}

Ema_updateCalibration(params) ==
    /\ variant = "ema"
    /\ calls < MaxCalls
    /\ calls' = calls + 1
    /\ mapper' = [mapper EXCEPT !.calibration = ObjectAssign(@, params)]
    /\ last' = Call("updateCalibration", "-", "done")
    /\ UNCHANGED <<variant, jacket, meshes, timers, now, calcIn, calcOut, others>>

-----------------------------------------------------------------------------
(* SkeletonMapper ("simple") *)

SimpleMinScale == 2000
SimpleMaxScale == 4000
SimpleDefaultScale == 2500

SimpleSmoothBuffer ==
    [position |-> Vec3(0, 0, 0), rotation |-> Vec3(0, PI, 0),
     scale |-> Scalar(SimpleDefaultScale)]

SimpleMapper ==
    [width |-> 0, height |-> 0, initialized |-> FALSE,
     hasSetInitialPosition |-> FALSE, smoothBuffer |-> SimpleSmoothBuffer]

calculatePosition(landmarks) ==
    LET leftShoulder == landmarks["LEFT_SHOULDER"]
        rightShoulder == landmarks["RIGHT_SHOULDER"]
        cx == Over(Add(leftShoulder.x, rightShoulder.x), 2)
        cy == Over(Add(leftShoulder.y, rightShoulder.y), 2)
        cz == Over(Add(leftShoulder.z, rightShoulder.z), 2)
    IN  IF ~leftShoulder.present \/ ~rightShoulder.present
        THEN Vec3(0, 0, 0)
        ELSE Vec3(Times(Sub(cx, 500), 4),
                  Neg(Times(Sub(cy, 400), 4)),
                  Add(0 - ONE, Over(Times(cz, 3), 2)))

calculateRotation(landmarks) ==
    LET leftShoulder == landmarks["LEFT_SHOULDER"]
        rightShoulder == landmarks["RIGHT_SHOULDER"]
        dx == Sub(rightShoulder.x, leftShoulder.x)
        dy == Sub(rightShoulder.y, leftShoulder.y)
        rollAngle == Atan2(dy, dx)
        depthDiff == Sub(rightShoulder.z, leftShoulder.z)
        shoulderWidth == Sqrt(Add(Sq(dx), Sq(dy)))
        yawAngle == Atan2(depthDiff, shoulderWidth)
    IN  IF ~leftShoulder.present \/ ~rightShoulder.present
        THEN Vec3(0, PI, 0)
        ELSE Vec3(0, Add(PI, Over(Times(yawAngle, 3), 2)),
                  Over(Times(Neg(rollAngle), 4), 5))

calculateScale(landmarks) ==
    LET leftShoulder == landmarks["LEFT_SHOULDER"]
        rightShoulder == landmarks["RIGHT_SHOULDER"]
        dx == Sub(rightShoulder.x, leftShoulder.x)
        dy == Sub(rightShoulder.y, leftShoulder.y)
        shoulderWidth == Sqrt(Add(Sq(dx), Sq(dy)))
        scale == Times(shoulderWidth, 6)
    IN  IF ~leftShoulder.present \/ ~rightShoulder.present
        THEN SimpleDefaultScale
        ELSE clamp(scale, SimpleMinScale, SimpleMaxScale)

\* setInitialPosition() giving up when there is no garment: no retry timer
setInitialPosition_noRetry(m, j, ms, t) ==
    LET placed == [j EXCEPT !.position = Vec3(0, 0, 0),
                            !.scale = Vec3(SimpleDefaultScale, SimpleDefaultScale,
                                           SimpleDefaultScale),
                            !.rotation = Vec3(0, PI, 0),
                            !.visible = TRUE]
    IN  IF ~j.loaded
        THEN [mapper |-> m, jacket |-> j, meshes |-> ms, timers |-> t,
              thrown |-> FALSE]
        ELSE [mapper |-> [m EXCEPT !.hasSetInitialPosition = TRUE],
              jacket |-> placed,
              meshes |-> [i \in DOMAIN ms |->
                             [ms[i] EXCEPT !.visible = TRUE,
                                           !.frustumCulled = FALSE]],
              timers |-> t, thrown |-> FALSE]

\* setInitialPosition(): with no garment, a retry timer; with one, the
\* default transform, the root and every mesh visible, the flag set
setInitialPosition(m, j, ms, t) ==
    LET placed == [j EXCEPT !.position = Vec3(0, 0, 0),
                            !.scale = Vec3(SimpleDefaultScale, SimpleDefaultScale,
                                           SimpleDefaultScale),
                            !.rotation = Vec3(0, PI, 0),
                            !.visible = TRUE]
        got == getMeshes(ms)
    IN  IF ~j.loaded
        THEN [mapper |-> m, jacket |-> j, meshes |-> ms, timers |-> t + 1,
              thrown |-> FALSE]
        ELSE IF got.thrown
        THEN [mapper |-> m, jacket |-> placed, meshes |-> ms, timers |-> t,
              thrown |-> TRUE]
        ELSE [mapper |-> [m EXCEPT !.hasSetInitialPosition = TRUE],
              jacket |-> placed,
              meshes |-> [i \in DOMAIN got.value |->
                             [got.value[i] EXCEPT !.visible = TRUE,
                                                  !.frustumCulled = FALSE]],
              timers |-> t, thrown |-> FALSE]

\* init(): the initial position is set by a timer, 500 ms later
Simple_init ==
    /\ variant = "simple"
    /\ calls < MaxCalls
    /\ calls' = calls + 1
    /\ mapper' = [mapper EXCEPT !.width = 640, !.height = 480, !.initialized = TRUE]
    /\ timers' = timers + 1
    /\ last' = Call("init", "-", "done")
    /\ UNCHANGED <<variant, jacket, meshes, now, calcIn, calcOut, others>>

\* a pending setTimeout callback runs setInitialPosition()
Simple_timer ==
    /\ variant = "simple"
    /\ timers > 0
    /\ LET r == setInitialPosition(mapper, jacket, meshes, timers - 1)
       IN  /\ mapper' = r.mapper
           /\ jacket' = r.jacket
           /\ meshes' = r.meshes
           /\ timers' = r.timers
           /\ last' = Call("timer", "-", IF r.thrown THEN "thrown" ELSE "done")
    /\ UNCHANGED <<variant, now, calls, calcIn, calcOut, others>>

\* the mapper and the garment after the try block of update()
Simple_track(m, j, id) ==
    LET landmarks == PoseData(id).landmarks
        position == calculatePosition(landmarks)
        rotation == calculateRotation(landmarks)
        scale == calculateScale(landmarks)
        b1 == applySmoothing(m.smoothBuffer, position, "position", 200)
        b2 == applySmoothing(b1, rotation, "rotation", 300)
        b3 == applySmoothing(b2, Vec3(scale, scale, scale), "scale", 250)
    IN  [mapper |-> [m EXCEPT !.smoothBuffer = b3],
         jacket |-> ApplyTransform(j, b3.position, b3.rotation, b3.scale.x)]

\* update(poseData) on mapper m, garment j with meshes ms and t pending
\* timers: what it leaves, and how the call ended
Simple_updated(m, j, ms, t, id) ==
    LET poseData == PoseData(id)
        visible == [j EXCEPT !.visible = TRUE]
        r == setInitialPosition(m, visible, ms, t)
        tracked == Simple_track(m, visible, id)
    IN  IF ~m.initialized \/ ~j.loaded
        THEN [mapper |-> m, jacket |-> j, meshes |-> ms, timers |-> t,
              outcome |-> "ignored"]
        ELSE IF ~m.hasSetInitialPosition
        THEN [mapper |-> r.mapper, jacket |-> r.jacket, meshes |-> r.meshes,
              timers |-> r.timers,
              outcome |-> IF r.thrown THEN "thrown" ELSE "initial"]
        ELSE IF ~poseData.isNull /\ HasLandmarks(poseData)
        THEN [mapper |-> tracked.mapper, jacket |-> tracked.jacket, meshes |-> ms,
              timers |-> t, outcome |-> "accepted"]
        ELSE [mapper |-> m, jacket |-> visible, meshes |-> ms, timers |-> t,
              outcome |-> "held"]

Simple_update(id) ==
    /\ variant = "simple"
    /\ calls < MaxCalls
    /\ calls' = calls + 1
    /\ LET r == Simple_updated(mapper, jacket, meshes, timers, id)
       IN  /\ mapper' = r.mapper
           /\ jacket' = r.jacket
           /\ meshes' = r.meshes
           /\ timers' = r.timers
           /\ last' = Call("update", id, r.outcome)
    /\ UNCHANGED <<variant, now, calcIn, calcOut, others>>

Simple_forceShowJacket ==
    /\ variant = "simple"
    /\ calls < MaxCalls
    /\ calls' = calls + 1
    /\ LET r == setInitialPosition(mapper, jacket, meshes, timers)
       IN  /\ mapper' = r.mapper
           /\ jacket' = r.jacket
           /\ meshes' = r.meshes
           /\ timers' = r.timers
           /\ last' = Call("forceShowJacket", "-", IF r.thrown THEN "thrown" ELSE "done")
    /\ UNCHANGED <<variant, now, calcIn, calcOut, others>>

Simple_reset ==
    /\ variant = "simple"
    /\ calls < MaxCalls
    /\ calls' = calls + 1
    /\ mapper' = [mapper EXCEPT !.smoothBuffer = SimpleSmoothBuffer,
                                !.hasSetInitialPosition = FALSE]
    /\ last' = Call("reset", "-", "done")
    /\ UNCHANGED <<variant, jacket, meshes, timers, now, calcIn, calcOut, others>>

-----------------------------------------------------------------------------
(* EnhancedSkeletonMapper with Kalman filters ("kalman") *)

KalmanMinScale == 3000
KalmanMaxScale == 15000
\* confidenceHistorySize
ConfidenceHistorySize == 10
\* the number of recent confidences handleLowConfidence() averages
RecentConfidences == 5

\* new KalmanFilter(processNoise, measurementNoise)
KalmanFilter(processNoise, measurementNoise) ==
    [x |-> 0, P |-> ONE, Q |-> processNoise, R |-> measurementNoise]

\* KalmanFilter.update(measurement): the filter afterwards; its x is returned
KalmanFilter_update(f, measurement) ==
    LET P_pred == f.P + f.Q
        K == (P_pred * ONE) \div (P_pred + f.R)
    IN  [f EXCEPT !.x = Add(f.x, Mul(K, Sub(measurement, f.x))),
                  !.P = ((ONE - K) * P_pred) \div ONE]

KalmanFilter_reset(f) == [f EXCEPT !.x = 0, !.P = ONE]

KalmanFilters ==
    [posX |-> KalmanFilter(1, 50), posY |-> KalmanFilter(1, 50),
     posZ |-> KalmanFilter(1, 100), rotX |-> KalmanFilter(1, 100),
     rotY |-> KalmanFilter(1, 100), rotZ |-> KalmanFilter(1, 100),
     scale |-> KalmanFilter(1, 50)]

KalmanCalibration ==
    [scaleMultiplier |-> 18000, depthMultiplier |-> -8000, verticalOffset |-> -500,
     horizontalOffset |-> 0, shoulderScale |-> 1150, chestScale |-> 1100,
     waistScale |-> 1000, hipScale |-> 950]

KalmanMapper ==
    [width |-> 0, height |-> 0, initialized |-> FALSE, lastPose |-> "null",
     currentMeasurements |-> [set |-> FALSE],
     filters |-> KalmanFilters, confidenceHistory |-> <<>>, minConfidence |-> 700,
     lastUpdateTime |-> 0, calibration |-> KalmanCalibration,
     isTracking |-> FALSE, trackingQuality |-> 0]

\* distance3D(p1, p2)
distance3D(p1, p2) ==
    LET dx == Sub(p2.x, p1.x)
        dy == Sub(p2.y, p1.y)
        dz == Sub(OrZero(p2.z), OrZero(p1.z))
    IN  IF ~p1.present \/ ~p2.present THEN 0
        ELSE Sqrt(Add(Add(Sq(dx), Sq(dy)), Sq(dz)))

\* midpoint(p1, p2)
midpoint(p1, p2) ==
    IF ~p1.present \/ ~p2.present THEN Pt(0, 0, 0, Undefined)
    ELSE Pt(Over(Add(p1.x, p2.x), 2), Over(Add(p1.y, p2.y), 2),
            Over(Add(OrZero(p1.z), OrZero(p2.z)), 2), Undefined)

\* BodyMeasurements.extract(landmarks), for 33 landmarks
BodyMeasurements_extract(landmarks) ==
    LET shoulderWidth == distance3D(landmarks["LEFT_SHOULDER"], landmarks["RIGHT_SHOULDER"])
        shoulderCenter == midpoint(landmarks["LEFT_SHOULDER"], landmarks["RIGHT_SHOULDER"])
        hipCenter == midpoint(landmarks["LEFT_HIP"], landmarks["RIGHT_HIP"])
        leftArmLength ==
            Add(distance3D(landmarks["LEFT_SHOULDER"], landmarks["LEFT_ELBOW"]),
                distance3D(landmarks["LEFT_ELBOW"], landmarks["LEFT_WRIST"]))
        rightArmLength ==
            Add(distance3D(landmarks["RIGHT_SHOULDER"], landmarks["RIGHT_ELBOW"]),
                distance3D(landmarks["RIGHT_ELBOW"], landmarks["RIGHT_WRIST"]))
    IN  [set |-> TRUE,
         shoulderWidth |-> shoulderWidth,
         torsoLength |-> distance3D(shoulderCenter, hipCenter),
         armLength |-> Over(Add(leftArmLength, rightArmLength), 2),
         chestWidth |-> Mul(shoulderWidth, 1100),
         hipWidth |-> distance3D(landmarks["LEFT_HIP"], landmarks["RIGHT_HIP"])]

\* calculateEnhancedPosition(landmarks): reading .z of a missing shoulder or
\* nose raises a TypeError
calculateEnhancedPosition(landmarks, calibration) ==
    LET leftShoulder == landmarks["LEFT_SHOULDER"]
        rightShoulder == landmarks["RIGHT_SHOULDER"]
        nose == landmarks["NOSE"]
        shoulderCenter == midpoint(leftShoulder, rightShoulder)
        hipCenter == midpoint(landmarks["LEFT_HIP"], landmarks["RIGHT_HIP"])
        tx == Over(Add(shoulderCenter.x, hipCenter.x), 2)
        ty == Over(Add(shoulderCenter.y, hipCenter.y), 2)
        avgDepth == Over(Add(Add(leftShoulder.z, rightShoulder.z), nose.z), 3)
        depthOffset == Add(calibration.depthMultiplier, Times(avgDepth, 4))
    IN  IF ~leftShoulder.present \/ ~rightShoulder.present \/ ~nose.present
        THEN Thrown
        ELSE Ok(Vec3(Add(Times(Sub(tx, 500), 12), calibration.horizontalOffset),
                     Add(Neg(Times(Sub(ty, 500), 12)), calibration.verticalOffset),
                     depthOffset))

\* calculateEnhancedRotation(landmarks): reading .x of a missing shoulder or
\* .y of a missing nose raises a TypeError
calculateEnhancedRotation(landmarks) ==
    LET leftShoulder == landmarks["LEFT_SHOULDER"]
        rightShoulder == landmarks["RIGHT_SHOULDER"]
        nose == landmarks["NOSE"]
        dx == Sub(rightShoulder.x, leftShoulder.x)
        dy == Sub(rightShoulder.y, leftShoulder.y)
        rollAngle == Atan2(dy, dx)
        shoulderWidth == Sqrt(Add(Sq(dx), Sq(dy)))
        depthDiff == Sub(rightShoulder.z, leftShoulder.z)
        yawAngle == Over(Times(Atan2(depthDiff, shoulderWidth), 9), 5)
        shoulderCenter == midpoint(leftShoulder, rightShoulder)
        hipCenter == midpoint(landmarks["LEFT_HIP"], landmarks["RIGHT_HIP"])
        torsoCenter == midpoint(shoulderCenter, hipCenter)
        pitchAngle == Over(Sub(nose.y, torsoCenter.y), 2)
    IN  IF ~leftShoulder.present \/ ~rightShoulder.present \/ ~nose.present
        THEN Thrown
        ELSE Ok(Vec3(Add(PI, pitchAngle), Add(PI, yawAngle), Neg(rollAngle)))

\* calculateEnhancedScale(landmarks): torsoRatio = torsoLength / shoulderWidth
\* is Infinity or NaN for a zero width; it is compared without dividing
calculateEnhancedScale(landmarks, calibration) ==
    LET shoulderWidth == distance3D(landmarks["LEFT_SHOULDER"], landmarks["RIGHT_SHOULDER"])
        shoulderCenter == midpoint(landmarks["LEFT_SHOULDER"], landmarks["RIGHT_SHOULDER"])
        hipCenter == midpoint(landmarks["LEFT_HIP"], landmarks["RIGHT_HIP"])
        torsoLength == distance3D(shoulderCenter, hipCenter)
        base == Mul(shoulderWidth, calibration.scaleMultiplier)
        scale == IF Gt(Times(torsoLength, 2), Times(shoulderWidth, 3))
                 THEN Mul(base, 1100)
                 ELSE IF Lt(torsoLength, shoulderWidth)
                 THEN Mul(base, 950)
                 ELSE base
    IN  clamp(scale, KalmanMinScale, KalmanMaxScale)

\* isFrontalPose(landmarks)
isFrontalPose(landmarks) ==
    LET leftShoulder == landmarks["LEFT_SHOULDER"]
        rightShoulder == landmarks["RIGHT_SHOULDER"]
    IN  /\ leftShoulder.present
        /\ rightShoulder.present
        /\ Lt(Abs(Sub(leftShoulder.z, rightShoulder.z)), 150)

SymmetryPairs ==
    {<<"LEFT_SHOULDER", "RIGHT_SHOULDER">>, <<"LEFT_ELBOW", "RIGHT_ELBOW">>,
     <<"LEFT_HIP", "RIGHT_HIP">>}

\* a visibility that is truthy: a number other than 0
Truthy(v) == IsNum(v) /\ v # 0

\* calculateSymmetry(landmarks)
calculateSymmetry(landmarks) ==
    LET valid == {pr \in SymmetryPairs :
                     /\ landmarks[pr[1]].present /\ landmarks[pr[2]].present
                     /\ Truthy(landmarks[pr[1]].visibility)
                     /\ Truthy(landmarks[pr[2]].visibility)}
        symmetrySum ==
            SumOver([pr \in valid |->
                        ONE - Abs(landmarks[pr[1]].visibility - landmarks[pr[2]].visibility)],
                    valid)
    IN  IF Cardinality(valid) > 0 THEN Over(symmetrySum, Cardinality(valid)) ELSE 0

KalmanKeyPoints ==
    {"LEFT_SHOULDER", "RIGHT_SHOULDER", "LEFT_ELBOW", "RIGHT_ELBOW",
     "LEFT_HIP", "RIGHT_HIP", "NOSE"}

\* calculateConfidence() of the Kalman mapper returning the sum unclamped
Kalman_calculateConfidence_unclamped(landmarks) ==
    LET valid == {k \in KalmanKeyPoints :
                     landmarks[k].present /\ landmarks[k].visibility # Undefined}
        totalVisibility == SumOver([k \in valid |-> landmarks[k].visibility], valid)
        avgVisibility == Over(totalVisibility, Cardinality(valid))
        frontalBonus == IF isFrontalPose(landmarks) THEN 100 ELSE 0
        symmetryBonus == Mul(calculateSymmetry(landmarks), 50)
    IN  Ok(IF Cardinality(valid) = 0 THEN 0
           ELSE Add(Add(avgVisibility, frontalBonus), symmetryBonus))

\* calculateConfidence(landmarks) of the Kalman mapper
Kalman_calculateConfidence(landmarks) ==
    LET valid == {k \in KalmanKeyPoints :
                     landmarks[k].present /\ landmarks[k].visibility # Undefined}
        totalVisibility == SumOver([k \in valid |-> landmarks[k].visibility], valid)
        avgVisibility == Over(totalVisibility, Cardinality(valid))
        frontalBonus == IF isFrontalPose(landmarks) THEN 100 ELSE 0
        symmetryBonus == Mul(calculateSymmetry(landmarks), 50)
    IN  Ok(IF Cardinality(valid) = 0 THEN 0
           ELSE clamp(Add(Add(avgVisibility, frontalBonus), symmetryBonus), 0, ONE))

RECURSIVE SumSeq(_)
SumSeq(q) == IF q = <<>> THEN 0 ELSE Add(Head(q), SumSeq(Tail(q)))

\* updateConfidenceHistory(confidence)
updateConfidenceHistory(history, confidence) ==
    LET pushed == Append(history, confidence)
    IN  IF Len(pushed) > ConfidenceHistorySize THEN Tail(pushed) ELSE pushed

\* getAverageConfidence()
getAverageConfidence(history) ==
    IF Len(history) = 0 THEN 0 ELSE Over(SumSeq(history), Len(history))

\* history.slice(-5)
LastOf(q, n) == IF Len(q) <= n THEN q ELSE SubSeq(q, Len(q) - n + 1, Len(q))

\* hideJacket()
hideJacket(j) == IF j.loaded THEN [j EXCEPT !.visible = FALSE] ELSE j

\* handleLowConfidence(): the garment is hidden when the recent confidences
\* average below half the threshold
handleLowConfidence(m, j) ==
    LET recentConfidence == LastOf(m.confidenceHistory, RecentConfidences)
        avgRecentConfidence == Over(SumSeq(recentConfidence), Len(recentConfidence))
    IN  IF Lt(avgRecentConfidence, m.minConfidence \div 2)
        THEN [mapper |-> [m EXCEPT !.isTracking = FALSE], jacket |-> hideJacket(j)]
        ELSE [mapper |-> m, jacket |-> j]

\* reset()
Kalman_resetFields(m) ==
    [m EXCEPT !.filters = [k \in DOMAIN m.filters |-> KalmanFilter_reset(m.filters[k])],
              !.confidenceHistory = <<>>, !.lastPose = "null",
              !.isTracking = FALSE, !.trackingQuality = 0]

\* handleUpdateError()
handleUpdateError(m) == Kalman_resetFields(m)

\* the mapper and the garment after the try block of update(); a TypeError
\* raised by a calculation is caught and handled by handleUpdateError()
Kalman_track(m, j, id, confidence) ==
    LET landmarks == PoseData(id).landmarks
        measured == [m EXCEPT !.currentMeasurements = BodyMeasurements_extract(landmarks)]
        position == calculateEnhancedPosition(landmarks, m.calibration)
        rotation == calculateEnhancedRotation(landmarks)
        scale == calculateEnhancedScale(landmarks, m.calibration)
        f == m.filters
        f1 == [f EXCEPT !.posX = KalmanFilter_update(@, position.value.x),
                        !.posY = KalmanFilter_update(@, position.value.y),
                        !.posZ = KalmanFilter_update(@, position.value.z)]
        f2 == [f1 EXCEPT !.rotX = KalmanFilter_update(@, rotation.value.x),
                         !.rotY = KalmanFilter_update(@, rotation.value.y),
                         !.rotZ = KalmanFilter_update(@, rotation.value.z)]
        f3 == [f2 EXCEPT !.scale = KalmanFilter_update(@, scale)]
    IN  IF position.thrown \/ rotation.thrown
        THEN [mapper |-> handleUpdateError(measured), jacket |-> j, caught |-> TRUE]
        ELSE [mapper |-> [measured EXCEPT !.filters = f3, !.isTracking = TRUE,
                                          !.trackingQuality = confidence,
                                          !.lastPose = id],
              jacket |-> [ApplyTransform(j, Vec3(f3.posX.x, f3.posY.x, f3.posZ.x),
                                         Vec3(f3.rotX.x, f3.rotY.x, f3.rotZ.x),
                                         f3.scale.x)
                             EXCEPT !.visible = TRUE],
              caught |-> FALSE]

\* the times that may pass between two update() calls
Elapsed == {5, 20}

\* now - lastUpdateTime < updateInterval, with updateInterval = 1000 / 60
Throttled(t, lastUpdateTime) == (t - lastUpdateTime) * 60 < 1000

Kalman_init ==
    /\ variant = "kalman"
    /\ calls < MaxCalls
    /\ calls' = calls + 1
    /\ mapper' = [mapper EXCEPT !.width = 640, !.height = 480, !.initialized = TRUE]
    /\ last' = Call("init", "-", "done")
    /\ UNCHANGED <<variant, jacket, meshes, timers, now, calcIn, calcOut, others>>

\* update(poseData) at time t (performance.now()) on mapper m and garment j:
\* the mapper and the garment it leaves, and how the call ended
Kalman_updated(m, j, id, t) ==
    LET poseData == PoseData(id)
        timed == [m EXCEPT !.lastUpdateTime = t]
        confidence == Kalman_calculateConfidence(poseData.landmarks)
        scored == [timed EXCEPT !.confidenceHistory =
                                    updateConfidenceHistory(@, confidence.value)]
        low == handleLowConfidence(scored, j)
        tracked == Kalman_track(scored, j, id, confidence.value)
    IN  IF EarlyReturn(m, poseData)
        THEN [mapper |-> m, jacket |-> j, outcome |-> "ignored"]
        ELSE IF Throttled(t, m.lastUpdateTime)
        THEN [mapper |-> m, jacket |-> j, outcome |-> "throttled"]
        ELSE IF ~HasLandmarks(poseData)
        THEN [mapper |-> timed, jacket |-> j, outcome |-> "ignored"]
        ELSE IF confidence.thrown
        THEN [mapper |-> timed, jacket |-> j, outcome |-> "thrown"]
        ELSE IF Lt(getAverageConfidence(scored.confidenceHistory), scored.minConfidence)
        THEN [mapper |-> low.mapper, jacket |-> low.jacket, outcome |-> "rejected"]
        ELSE IF ~j.loaded
        THEN [mapper |-> scored, jacket |-> j, outcome |-> "nomodel"]
        ELSE [mapper |-> tracked.mapper, jacket |-> tracked.jacket,
              outcome |-> IF tracked.caught THEN "caught" ELSE "accepted"]

Kalman_update(id, dt) ==
    /\ variant = "kalman"
    /\ calls < MaxCalls
    /\ calls' = calls + 1
    /\ now' = now + dt
    /\ Updated(Kalman_updated(mapper, jacket, id, now'), id)
    /\ UNCHANGED <<variant, meshes, timers, calcIn, calcOut, others>>

Kalman_reset ==
    /\ variant = "kalman"
    /\ calls < MaxCalls
    /\ calls' = calls + 1
    /\ mapper' = Kalman_resetFields(mapper)
    /\ last' = Call("reset", "-", "done")
    /\ UNCHANGED <<variant, jacket, meshes, timers, now, calcIn, calcOut, others>>

Kalman_forceShowJacket ==
    /\ variant = "kalman"
    /\ calls < MaxCalls
    /\ calls' = calls + 1
    /\ IF jacket.loaded
       THEN /\ jacket' = [jacket EXCEPT !.visible = TRUE]
            /\ mapper' = [mapper EXCEPT !.isTracking = TRUE]
       ELSE UNCHANGED <<jacket, mapper>>
    /\ last' = Call("forceShowJacket", "-", "done")
    /\ UNCHANGED <<variant, meshes, timers, now, calcIn, calcOut, others>>

Kalman_hideJacket ==
    /\ variant = "kalman"
    /\ calls < MaxCalls
    /\ calls' = calls + 1
    /\ jacket' = hideJacket(jacket)
    /\ last' = Call("hideJacket", "-", "done")
    /\ UNCHANGED <<variant, mapper, meshes, timers, now, calcIn, calcOut, others>>

Kalman_updateCalibration(params) ==
    /\ variant = "kalman"
    /\ calls < MaxCalls
    /\ calls' = calls + 1
    /\ mapper' = [mapper EXCEPT !.calibration = ObjectAssign(@, params)]
    /\ last' = Call("updateCalibration", "-", "done")
    /\ UNCHANGED <<variant, jacket, meshes, timers, now, calcIn, calcOut, others>>

-----------------------------------------------------------------------------
(* SkeletonMapper of src/unnamed/part_003: the scale read from CONFIG *)

\* CONFIG.SKELETON and CONFIG.JACKET: the keys calculateScale() reads;
\* BASE_SCALE, MIN_SCALE and MAX_SCALE are not set
CONFIG_SKELETON == [SMOOTHING_FACTOR |-> 300]
CONFIG_JACKET == [SCALE |-> JacketScale]

\* JavaScript's (v || d) on a number
OrElse(v, d) == IF IsNum(v) /\ v # 0 THEN v ELSE d

Config_calculateScale(landmarks) ==
    LET leftShoulder == landmarks["LEFT_SHOULDER"]
        rightShoulder == landmarks["RIGHT_SHOULDER"]
        dx == Sub(rightShoulder.x, leftShoulder.x)
        dy == Sub(rightShoulder.y, leftShoulder.y)
        shoulderWidth == Sqrt(Add(Sq(dx), Sq(dy)))
        scale == Mul(shoulderWidth, OrElse(Prop(CONFIG_SKELETON, "BASE_SCALE"), 8000))
        minScale == OrElse(Prop(CONFIG_SKELETON, "MIN_SCALE"), 2000)
        maxScale == OrElse(Prop(CONFIG_SKELETON, "MAX_SCALE"), 4000)
    IN  IF ~leftShoulder.present \/ ~rightShoulder.present
        THEN CONFIG_JACKET.SCALE
        ELSE clamp(scale, minScale, maxScale)

-----------------------------------------------------------------------------
(* The pure calculations, applied to landmark sets drawn from a grid *)

CoordValues == {0 - MaxCoord * ONE, 0, 400, 600, MaxCoord * ONE}

\* landmark sets with both shoulders present: the frontal pose with the
\* shoulders moved over the grid, with or without hips
CalcInputs ==
    {[FrontLandmarks EXCEPT !["LEFT_SHOULDER"] = Pt(x1, 500, 0, 1000),
                            !["RIGHT_SHOULDER"] = Pt(x2, y2, z2, 1000),
                            !["LEFT_HIP"] = IF hips THEN @ ELSE Missing] :
        x1 \in CoordValues, x2 \in CoordValues, y2 \in {500, MaxCoord * ONE},
        z2 \in {0, 0 - MaxCoord * ONE}, hips \in BOOLEAN}

\* the landmark sets with the right shoulder missing
MissingShoulderInputs ==
    {[FrontLandmarks EXCEPT !["RIGHT_SHOULDER"] = Missing],
     [LowLandmarks EXCEPT !["RIGHT_SHOULDER"] = Missing]}

\* the outcome of calculation fn: the value returned, or a TypeError
Result(fn, r) == [fn |-> fn, thrown |-> r.thrown, value |-> r.value]

Calc_calculateShoulderPosition ==
    /\ calcOut' = Result("calculateShoulderPosition",
                         Ok(calculateShoulderPosition(calcIn, EmaCalibration)))
    /\ UNCHANGED <<variant, mapper, jacket, meshes, timers, now, calls, last, calcIn, others>>

Calc_calculateBodyRotation ==
    /\ calcOut' = Result("calculateBodyRotation", Ok(calculateBodyRotation(calcIn)))
    /\ UNCHANGED <<variant, mapper, jacket, meshes, timers, now, calls, last, calcIn, others>>

Calc_calculateShoulderScale ==
    /\ calcOut' = Result("calculateShoulderScale",
                         Ok(calculateShoulderScale(calcIn, EmaCalibration)))
    /\ UNCHANGED <<variant, mapper, jacket, meshes, timers, now, calls, last, calcIn, others>>

Calc_calculatePosition ==
    /\ calcOut' = Result("calculatePosition", Ok(calculatePosition(calcIn)))
    /\ UNCHANGED <<variant, mapper, jacket, meshes, timers, now, calls, last, calcIn, others>>

Calc_calculateRotation ==
    /\ calcOut' = Result("calculateRotation", Ok(calculateRotation(calcIn)))
    /\ UNCHANGED <<variant, mapper, jacket, meshes, timers, now, calls, last, calcIn, others>>

Calc_calculateScale ==
    /\ calcOut' = Result("calculateScale", Ok(calculateScale(calcIn)))
    /\ UNCHANGED <<variant, mapper, jacket, meshes, timers, now, calls, last, calcIn, others>>

Calc_Config_calculateScale ==
    /\ calcOut' = Result("Config_calculateScale", Ok(Config_calculateScale(calcIn)))
    /\ UNCHANGED <<variant, mapper, jacket, meshes, timers, now, calls, last, calcIn, others>>

Calc_calculateEnhancedPosition ==
    /\ calcOut' = Result("calculateEnhancedPosition",
                         calculateEnhancedPosition(calcIn, KalmanCalibration))
    /\ UNCHANGED <<variant, mapper, jacket, meshes, timers, now, calls, last, calcIn, others>>

Calc_calculateEnhancedRotation ==
    /\ calcOut' = Result("calculateEnhancedRotation", calculateEnhancedRotation(calcIn))
    /\ UNCHANGED <<variant, mapper, jacket, meshes, timers, now, calls, last, calcIn, others>>

Calc_calculateEnhancedScale ==
    /\ calcOut' = Result("calculateEnhancedScale",
                         Ok(calculateEnhancedScale(calcIn, KalmanCalibration)))
    /\ UNCHANGED <<variant, mapper, jacket, meshes, timers, now, calls, last, calcIn, others>>

-----------------------------------------------------------------------------
(* PoseQualityAnalyzer of src/unnamed/part_005 and the confidence estimators *)

\* this.optimalShoulderWidth, this.optimalDepthDiff
OptimalShoulderWidth == 220
OptimalDepthDiff == 50

\* Math.max(0, a): NaN for NaN
Max0(a) == IF IsNum(a) THEN (IF a < 0 THEN 0 ELSE a) ELSE NaN

\* 1 - (a / b) for a positive constant b
OneMinusRatio(a, b) == IF IsNum(a) THEN ONE - ((a * ONE) \div b) ELSE NaN

assessFrontal(landmarks) ==
    LET leftShoulder == landmarks["LEFT_SHOULDER"]
        rightShoulder == landmarks["RIGHT_SHOULDER"]
        depthDiff == Abs(Sub(leftShoulder.z, rightShoulder.z))
    IN  IF ~leftShoulder.present \/ ~rightShoulder.present THEN 0
        ELSE Max0(OneMinusRatio(depthDiff, OptimalDepthDiff))

assessVisibility(landmarks) ==
    LET valid == {k \in KalmanKeyPoints :
                     landmarks[k].present /\ landmarks[k].visibility # Undefined}
        totalVisibility == SumOver([k \in valid |-> landmarks[k].visibility], valid)
    IN  IF Cardinality(valid) > 0 THEN Over(totalVisibility, Cardinality(valid)) ELSE 0

assessSymmetry(landmarks) ==
    LET valid == {pr \in SymmetryPairs :
                     /\ landmarks[pr[1]].present /\ landmarks[pr[2]].present
                     /\ Truthy(landmarks[pr[1]].visibility)
                     /\ Truthy(landmarks[pr[2]].visibility)}
        symmetrySum ==
            SumOver([pr \in valid |->
                        ONE - Abs(landmarks[pr[1]].visibility - landmarks[pr[2]].visibility)],
                    valid)
    IN  IF Cardinality(valid) > 0 THEN Over(symmetrySum, Cardinality(valid)) ELSE 0

assessDistance(landmarks) ==
    LET leftShoulder == landmarks["LEFT_SHOULDER"]
        rightShoulder == landmarks["RIGHT_SHOULDER"]
        dx == Sub(rightShoulder.x, leftShoulder.x)
        dy == Sub(rightShoulder.y, leftShoulder.y)
        shoulderWidth == Sqrt(Add(Sq(dx), Sq(dy)))
        deviation == Abs(Sub(shoulderWidth, OptimalShoulderWidth))
    IN  IF ~leftShoulder.present \/ ~rightShoulder.present THEN 0
        ELSE Max0(OneMinusRatio(deviation, OptimalShoulderWidth))

\* assessStability(): the neutral score
assessStability == 800

\* assess(pose).quality: 0 without a pose or a landmarks array, else the
\* weighted sum of the five scores
assess(pose) ==
    IF pose.isNull \/ ~pose.hasLandmarks THEN 0
    ELSE Add(Add(Add(Add(Mul(assessFrontal(pose.landmarks), 300),
                         Mul(assessVisibility(pose.landmarks), 250)),
                     Mul(assessSymmetry(pose.landmarks), 200)),
                 Mul(assessDistance(pose.landmarks), 150)),
             Mul(assessStability, 100))

\* visibilities and depths of the shoulders on the grid of poses
Visibilities == {0, 300, ONE}
Depths == {0 - MaxCoord * ONE, 0, 100, MaxCoord * ONE}

\* 33-landmark poses: the frontal pose with the shoulders' visibility and
\* depth, the other key points' visibility and the set of missing key
\* points varied
GridPoses ==
    {[isNull |-> FALSE, hasLandmarks |-> TRUE, length |-> 33,
      landmarks |->
        [k \in LANDMARKS |->
            IF k \in gone THEN Missing
            ELSE CASE k = "LEFT_SHOULDER" -> Pt(400, 500, zl, vl)
                   [] k = "RIGHT_SHOULDER" -> Pt(600, 500, zr, vr)
                   [] OTHER -> [FrontLandmarks[k] EXCEPT !.visibility = vo]]] :
        vl \in Visibilities, vr \in Visibilities, vo \in {0, ONE},
        zl \in Depths, zr \in Depths,
        gone \in {{}, KalmanKeyPoints,
                  {"RIGHT_SHOULDER", "RIGHT_ELBOW", "RIGHT_HIP"}}}

EstimatePoses == {PoseData(id) : id \in PoseIds} \cup GridPoses

\* every landmark that is present has coordinates and a visibility in [0,1]
WellFormed(landmarks) ==
    \A k \in LANDMARKS :
        landmarks[k].present
            => /\ IsNum(landmarks[k].x) /\ IsNum(landmarks[k].y) /\ IsNum(landmarks[k].z)
               /\ IsNum(landmarks[k].visibility)
               /\ landmarks[k].visibility >= 0 /\ landmarks[k].visibility <= ONE

NoEstimate == [pose |-> PoseData("null"), fn |-> "none", thrown |-> FALSE, value |-> 0]

\* poseQualityAnalyzer.assess(pose)
Estimate_assess ==
    /\ estimate.fn = "none"
    /\ estimate' = [estimate EXCEPT !.fn = "assess", !.value = assess(estimate.pose)]
    /\ UNCHANGED <<mapperVars, calcVars, smoothing, sceneVars, aiVars>>

\* calculateConfidence(landmarks) as update() of the EMA mapper calls it: on
\* an array of at least 33 landmarks
Estimate_calculateConfidence ==
    /\ estimate.fn = "none"
    /\ ~estimate.pose.isNull
    /\ HasLandmarks(estimate.pose)
    /\ LET r == calculateConfidence(estimate.pose.landmarks)
       IN  estimate' = [estimate EXCEPT !.fn = "calculateConfidence",
                                        !.thrown = r.thrown, !.value = r.value]
    /\ UNCHANGED <<mapperVars, calcVars, smoothing, sceneVars, aiVars>>

\* calculateConfidence(landmarks) as update() of the Kalman mapper calls it
Estimate_Kalman_calculateConfidence ==
    /\ estimate.fn = "none"
    /\ ~estimate.pose.isNull
    /\ HasLandmarks(estimate.pose)
    /\ LET r == Kalman_calculateConfidence(estimate.pose.landmarks)
       IN  estimate' = [estimate EXCEPT !.fn = "Kalman_calculateConfidence",
                                        !.thrown = r.thrown, !.value = r.value]
    /\ UNCHANGED <<mapperVars, calcVars, smoothing, sceneVars, aiVars>>

-----------------------------------------------------------------------------
(* One smoothing memory fed the same raw value on every accepted frame *)

\* frames fed to one memory, the frame from which the value must have
\* settled, and the distance that counts as settled (0.02)
MaxFrames == 104
ConvergeFrames == 100
Epsilon == 20

\* smoothingAlpha of the calibration, the three coefficients update() of the
\* SkeletonMapper passes, and 1
SmoothingAlphas == {150, 200, 250, 300, ONE}

RawValues == {0 - PI, 0, SimpleDefaultScale, MaxCoord * ONE}

\* the buffers of the two constructors and a buffer left by tracking
EmaMemories ==
    {EmaSmoothBuffer, SimpleSmoothBuffer,
     [position |-> Vec3(0 - MaxCoord * ONE, 0, MaxCoord * ONE),
      rotation |-> Vec3(PI, PI, 0),
      scale |-> Vec3(EmaMinScale, EmaMinScale, EmaMinScale)]}

\* filters as constructed or reset, and filters left by tracking, whose
\* covariance has settled (at 0.006 for R = 0.05, at 0.009 for R = 0.1)
KalmanMemories ==
    {[x |-> x0, P |-> pr[1], Q |-> 1, R |-> pr[2]] :
        x0 \in {0 - MaxCoord * ONE, 0, MaxCoord * ONE},
        pr \in {<<ONE, 50>>, <<ONE, 100>>, <<6, 50>>, <<9, 100>>}}

NoSmoothing ==
    [kind |-> "none", memory |-> EmaSmoothBuffer, raw |-> 0, alpha |-> 0, frames |-> 0]

\* one accepted frame of an EMA mapper: applySmoothing on the three channels
Smooth_applySmoothing ==
    /\ smoothing.kind = "ema"
    /\ smoothing.frames < MaxFrames
    /\ LET raw == Vec3(smoothing.raw, smoothing.raw, smoothing.raw)
           b1 == applySmoothing(smoothing.memory, raw, "position", smoothing.alpha)
           b2 == applySmoothing(b1, raw, "rotation", smoothing.alpha)
           b3 == applySmoothing(b2, raw, "scale", smoothing.alpha)
       IN  smoothing' = [smoothing EXCEPT !.memory = b3, !.frames = @ + 1]
    /\ UNCHANGED <<mapperVars, calcVars, estimate, sceneVars, aiVars>>

\* one accepted frame of the Kalman mapper on one filter
Smooth_KalmanFilter_update ==
    /\ smoothing.kind = "kalman"
    /\ smoothing.frames < MaxFrames
    /\ smoothing' = [smoothing EXCEPT
                        !.memory = KalmanFilter_update(@, smoothing.raw),
                        !.frames = @ + 1]
    /\ UNCHANGED <<mapperVars, calcVars, estimate, sceneVars, aiVars>>

\* the smoothed values the memory holds, channel by channel
SmoothedChannels ==
    IF smoothing.kind = "kalman"
    THEN {smoothing.memory.x}
    ELSE {Prop(smoothing.memory[k], c) :
            k \in {"position", "rotation", "scale"}, c \in {"x", "y", "z"}}

-----------------------------------------------------------------------------
(* CompositeRenderer: the video background and the render loop *)

\* CONFIG.PERFORMANCE.TARGET_FPS
TARGET_FPS == 24

\* the tolerance of the frame throttle, in ms
ThrottleTolerance == 1

\* the explicit render-order key of the video plane
VideoRenderOrder == 0 - 1000

\* width / height of the viewport, in thousandths
Aspects == {750, 1333, 1778}

\* time that passes between two events, in ms
FrameElapsed == {17, 41}

\* this.videoPlane is null
NoPlane ==
    [exists |-> FALSE, renderOrder |-> 0, visible |-> FALSE,
     width |-> ONE, height |-> ONE, scaleX |-> ONE, scaleY |-> ONE]

\* the renderer as constructed; polls and stalePolls count the pending
\* waitForVideo timers scheduled since, and before, the last dispose();
\* scenePlanes counts the video planes in the scene; drew, lastDraw and
\* prevDraw record whether the last render() drew the scene and when the
\* loop's last two draws happened
NewRenderer(t) ==
    [videoTexture |-> FALSE, videoPlane |-> NoPlane, isRunning |-> FALSE,
     animationId |-> FALSE, callbacks |-> 0, lastRenderTime |-> t, polls |-> 0,
     stalePolls |-> 0,
     scenePlanes |-> 0, inits |-> 0, disposed |-> FALSE, drew |-> FALSE,
     lastDraw |-> 0 - 1, prevDraw |-> 0 - 1, op |-> "new"]

\* the height of the camera's frustum at the plane's depth,
\* 2 * tan(vFOV / 2) * distance: for a field of view of 85 and of 50 degrees
\* at distance 22, in thousandths
FrustumHeights == {40319, 20518}

\* cameraManager.video, and whether its readyState is at least 2; the
\* aspect of the scene camera and the height of its frustum at the plane
NoCamera == [hasVideo |-> FALSE, ready |-> FALSE, aspect |-> 1333, frustum |-> 40319]

\* the plane's geometry: planeHeight and planeWidth = planeHeight * aspect
planeHeight(cam) == cam.frustum
planeWidth(cam) == Mul(planeHeight(cam), cam.aspect)

\* createVideoTexture without the render-order key
createVideoTexture_noRenderOrder(r, cam) ==
    [r EXCEPT !.videoTexture = TRUE,
              !.videoPlane = [exists |-> TRUE, renderOrder |-> 0,
                              visible |-> TRUE, width |-> planeWidth(cam),
                              height |-> planeHeight(cam),
                              scaleX |-> ONE, scaleY |-> ONE],
              !.scenePlanes = @ + 1]

\* createVideoTexture(video): the texture, and a visible plane sized to the
\* viewport, keyed to render first and added to the scene
createVideoTexture(r, cam) ==
    [r EXCEPT !.videoTexture = TRUE,
              !.videoPlane = [exists |-> TRUE, renderOrder |-> VideoRenderOrder,
                              visible |-> TRUE, width |-> planeWidth(cam),
                              height |-> planeHeight(cam),
                              scaleX |-> ONE, scaleY |-> ONE],
              !.scenePlanes = @ + 1]

\* waitForVideo(): create the texture when the video has data, else poll
\* again in 100 ms; stale tells whether the chain predates the last dispose()
waitForVideo(r, cam, stale) ==
    IF cam.ready
    THEN createVideoTexture(r, cam)
    ELSE IF stale THEN [r EXCEPT !.stalePolls = @ + 1]
         ELSE [r EXCEPT !.polls = @ + 1]

\* setupVideoBackground()
setupVideoBackground(r, cam) ==
    IF ~cam.hasVideo THEN r ELSE waitForVideo(r, cam, FALSE)

\* render() without the early return of the throttle
render_unthrottled(r, t) ==
    IF ~r.isRunning
    THEN [r EXCEPT !.drew = FALSE]
    ELSE [r EXCEPT !.animationId = TRUE, !.callbacks = @ + 1,
                   !.lastRenderTime = t, !.drew = TRUE,
                   !.prevDraw = r.lastDraw, !.lastDraw = t]

\* render(): schedule the next frame, then draw unless the target interval
\* less the tolerance has not passed since lastRenderTime
render(r, t) ==
    LET delta == t - r.lastRenderTime
    IN  IF ~r.isRunning
        THEN [r EXCEPT !.drew = FALSE]
        ELSE IF delta * TARGET_FPS < 1000 - ThrottleTolerance * TARGET_FPS
        THEN [r EXCEPT !.animationId = TRUE, !.callbacks = @ + 1, !.drew = FALSE]
        ELSE [r EXCEPT !.animationId = TRUE, !.callbacks = @ + 1,
                       !.lastRenderTime = t, !.drew = TRUE,
                       !.prevDraw = r.lastDraw, !.lastDraw = t]

\* stop(): cancels the callback whose handle animationId holds. callbacks
\* counts the animation-frame callbacks that are pending
stop(r) ==
    [r EXCEPT !.isRunning = FALSE, !.animationId = FALSE,
              !.callbacks = IF r.animationId THEN @ - 1 ELSE @]

\* start() without the test of isRunning
start_noGuard(r, t) ==
    render([r EXCEPT !.isRunning = TRUE, !.lastRenderTime = t], t)

\* start(): nothing on a running loop, else the first render() call
start(r, t) ==
    IF r.isRunning
    THEN r
    ELSE render([r EXCEPT !.isRunning = TRUE, !.lastRenderTime = t], t)

\* a pending frame callback runs render(); when sceneManager.render()
\* raises (throws), the catch block logs it and the frame is not drawn
frame(r, t, throws) ==
    LET ran == [r EXCEPT !.callbacks = @ - 1,
                         !.animationId = (r.callbacks > 1 /\ @)]
        done == render(ran, t)
    IN  IF throws /\ done.drew
        THEN [done EXCEPT !.drew = FALSE, !.lastDraw = r.lastDraw,
                          !.prevDraw = r.prevDraw, !.op = "frameThrew"]
        ELSE [done EXCEPT !.op = "frame"]

\* the video element gets its first frame
Camera_loadedData ==
    /\ camera.hasVideo
    /\ ~camera.ready
    /\ camera' = [camera EXCEPT !.ready = TRUE]
    /\ UNCHANGED <<mapperVars, calcVars, smoothing, estimate, renderer, fabric, aiVars>>

\* time passes
Tick(dt) ==
    /\ now + dt <= MaxTime
    /\ now' = now + dt
    /\ UNCHANGED <<variant, mapper, jacket, meshes, timers, calls, last, calcVars,
                   others>>

\* init(width, height)
Renderer_init ==
    /\ renderer.inits < MaxInits
    /\ renderer' = [setupVideoBackground(renderer, camera) EXCEPT
                        !.inits = @ + 1, !.disposed = FALSE, !.op = "init"]
    /\ UNCHANGED <<mapperVars, calcVars, smoothing, estimate, camera, fabric, aiVars>>

\* a pending waitForVideo timer fires
Renderer_poll(stale) ==
    /\ IF stale THEN renderer.stalePolls > 0 ELSE renderer.polls > 0
    /\ LET r == IF stale THEN [renderer EXCEPT !.stalePolls = @ - 1]
                ELSE [renderer EXCEPT !.polls = @ - 1]
       IN  renderer' = [waitForVideo(r, camera, stale) EXCEPT !.op = "poll"]
    /\ UNCHANGED <<mapperVars, calcVars, smoothing, estimate, camera, fabric, aiVars>>

\* start()
Renderer_start ==
    /\ ~renderer.isRunning
    /\ renderer' = [render([renderer EXCEPT !.isRunning = TRUE,
                                            !.lastRenderTime = now], now)
                        EXCEPT !.op = "start"]
    /\ UNCHANGED <<mapperVars, calcVars, smoothing, estimate, camera, fabric, aiVars>>

\* stop()
Renderer_stop ==
    /\ renderer.isRunning
    /\ renderer' = [stop(renderer) EXCEPT !.op = "stop"]
    /\ UNCHANGED <<mapperVars, calcVars, smoothing, estimate, camera, fabric, aiVars>>

\* the frame callback scheduled by render() runs
Renderer_frame ==
    /\ renderer.animationId
    /\ renderer' = [render([renderer EXCEPT !.animationId = FALSE,
                                            !.callbacks = @ - 1], now)
                        EXCEPT !.op = "frame"]
    /\ UNCHANGED <<mapperVars, calcVars, smoothing, estimate, camera, fabric, aiVars>>

\* start() is called, on a stopped or on a running loop
Loop_start ==
    /\ renderer' = [start(renderer, now) EXCEPT !.op = "start"]
    /\ UNCHANGED <<mapperVars, calcVars, smoothing, estimate, camera, fabric, aiVars>>

\* stop() is called, on a running or on a stopped loop
Loop_stop ==
    /\ renderer' = [stop(renderer) EXCEPT !.op = "stop"]
    /\ UNCHANGED <<mapperVars, calcVars, smoothing, estimate, camera, fabric, aiVars>>

\* a pending frame callback runs
Loop_frame(throws) ==
    /\ renderer.callbacks > 0
    /\ renderer' = frame(renderer, now, throws)
    /\ UNCHANGED <<mapperVars, calcVars, smoothing, estimate, camera, fabric, aiVars>>

\* onResize() that leaves the plane's scale alone
onResize_noRescale(r, cam) == r

\* onResize() once the camera has the viewport's aspect: the plane's scale
\* becomes the frustum's size over the geometry's size
onResize(r, cam) ==
    LET plane == r.videoPlane
    IN  IF plane.exists
        THEN [r EXCEPT !.videoPlane =
                 [plane EXCEPT
                     !.scaleX = Times(planeWidth(cam), ONE) \div plane.width,
                     !.scaleY = Times(planeHeight(cam), ONE) \div plane.height]]
        ELSE r

\* onResize(): the camera takes the viewport's aspect and the plane is
\* rescaled to it
Renderer_onResize(aspect) ==
    /\ aspect # camera.aspect
    /\ camera' = [camera EXCEPT !.aspect = aspect]
    /\ renderer' = [onResize(renderer, camera') EXCEPT !.op = "onResize"]
    /\ UNCHANGED <<mapperVars, calcVars, smoothing, estimate, fabric, aiVars>>

\* sceneManager.updateCamera(videoWidth, videoHeight): the camera takes the
\* video's aspect; the plane is not touched
Scene_updateCamera(aspect) ==
    /\ camera' = [camera EXCEPT !.aspect = aspect]
    /\ UNCHANGED <<mapperVars, calcVars, smoothing, estimate, renderer, fabric, aiVars>>

\* sceneManager.onWindowResize(), the scene's own resize listener: the
\* camera takes the viewport's aspect; the plane is not touched
Scene_onWindowResize(aspect) ==
    /\ aspect # camera.aspect
    /\ camera' = [camera EXCEPT !.aspect = aspect]
    /\ UNCHANGED <<mapperVars, calcVars, smoothing, estimate, renderer, fabric, aiVars>>

\* the orbit controls of the debug build move the camera
Camera_moved(frustum) ==
    /\ frustum # camera.frustum
    /\ camera' = [camera EXCEPT !.frustum = frustum]
    /\ UNCHANGED <<mapperVars, calcVars, smoothing, estimate, renderer, fabric, aiVars>>

\* dispose(): the loop is stopped, the texture and the plane are released
\* and the plane leaves the scene
Renderer_dispose ==
    /\ renderer' = [stop(renderer) EXCEPT
                        !.videoTexture = FALSE,
                        !.videoPlane = NoPlane,
                        !.scenePlanes = IF renderer.videoPlane.exists THEN @ - 1 ELSE @,
                        !.stalePolls = @ + renderer.polls,
                        !.polls = 0,
                        !.disposed = TRUE,
                        !.op = "dispose"]
    /\ UNCHANGED <<mapperVars, calcVars, smoothing, estimate, camera, fabric, aiVars>>

-----------------------------------------------------------------------------
(* MaterialsManager: applying a fabric to the garment meshes *)

\* the three materials managers, by the file that holds them
Managers == {"part_000", "part_001", "part_002"}

\* a fabric with a colour, and one with texture maps only
Fabrics == {"color", "texture"}

\* the render-order key applyFabric gives a garment mesh
JacketRenderOrder == 0

\* the manager as constructed; pending is the fabric whose textures are
\* being loaded, alias tells whether the meshes captured before the await
\* are still the loader's, orphans holds them once the loader has dropped them
NewFabric(manager) ==
    [manager |-> manager, currentFabric |-> "none", currentMaterial |-> "none",
     pending |-> "none", alias |-> FALSE, orphans |-> <<>>, result |-> "none",
     applies |-> 0]

\* modelLoader.setVisible(visible)
setVisible(j, ms, visible) ==
    IF j.loaded THEN [i \in DOMAIN ms |-> [ms[i] EXCEPT !.visible = visible]] ELSE ms

\* modelLoader.dispose(): the root is removed, the mesh list replaced by an
\* empty one
dispose(j, ms) == [jacket |-> NoJacket, meshes |-> <<>>]

\* skeletonMapper.forceShowJacket() of the mapper in use
forceShowJacket(v, m, j, ms, t) ==
    CASE v = "simple" -> setInitialPosition(m, j, ms, t)
      [] v = "ema" ->
            [mapper |-> IF j.loaded THEN [m EXCEPT !.hasShownJacket = TRUE] ELSE m,
             jacket |-> IF j.loaded THEN [j EXCEPT !.visible = TRUE] ELSE j,
             meshes |-> ms, timers |-> t, thrown |-> FALSE]
      [] v = "kalman" ->
            [mapper |-> IF j.loaded THEN [m EXCEPT !.isTracking = TRUE] ELSE m,
             jacket |-> IF j.loaded THEN [j EXCEPT !.visible = TRUE] ELSE j,
             meshes |-> ms, timers |-> t, thrown |-> FALSE]

\* the material is given to the captured meshes: to all of them (part_000,
\* materials.js), to the first (part_001), or to all that are not keyed as
\* the video plane, which also get the garment's render-order key (part_002)
assignMaterial(manager, ms, material) ==
    [i \in DOMAIN ms |->
        CASE manager = "part_000" \/ manager = "materials" ->
                [ms[i] EXCEPT !.material = material]
          [] manager = "part_001" ->
                IF i = 1 THEN [ms[i] EXCEPT !.material = material] ELSE ms[i]
          [] manager = "part_002" ->
                IF ms[i].renderOrder = VideoRenderOrder
                THEN ms[i]
                ELSE [ms[i] EXCEPT !.material = material,
                                   !.renderOrder = JacketRenderOrder]]

\* applyFabric once the material exists, with no test that the garment is
\* still there: the captured meshes get it, the fabric becomes current, the
\* loader's meshes are shown, and part_001 has the mapper show the garment
finishApply(f, material, v, m, j, ms, t) ==
    LET given == IF f.alias THEN assignMaterial(f.manager, ms, material) ELSE ms
        shown == setVisible(j, given, TRUE)
        forced == IF f.manager = "part_001"
                  THEN forceShowJacket(v, m, j, shown, t)
                  ELSE [mapper |-> m, jacket |-> j, meshes |-> shown, timers |-> t,
                        thrown |-> FALSE]
    IN  [fabric |-> [f EXCEPT !.currentFabric = f.pending,
                              !.currentMaterial = material,
                              !.pending = "none",
                              !.orphans = IF f.alias THEN <<>>
                                          ELSE assignMaterial(f.manager, @, material),
                              !.result = "true"],
         mapper |-> forced.mapper, jacket |-> forced.jacket,
         meshes |-> forced.meshes, timers |-> forced.timers]

\* the material a manager makes without loading anything, if any
syncMaterial(manager, fabricData) ==
    CASE fabricData = "color" -> "color"
      [] manager = "part_002" \/ manager = "materials" -> "default"
      [] OTHER -> "none"

\* the catch block of applyFabric: part_002 and materials.js give every
\* mesh of the loader the default material, the others change nothing
recover(manager, ms) ==
    IF manager = "part_002" \/ manager = "materials"
    THEN [i \in DOMAIN ms |-> [ms[i] EXCEPT !.material = "default"]]
    ELSE ms

\* applyFabric(fabricData) that does not test the model and its meshes
Fabric_applyFabric_unchecked(fabricData) ==
    /\ fabric.pending = "none"
    /\ fabric.applies < MaxApplies
    /\ LET material == syncMaterial(fabric.manager, fabricData)
           started == [fabric EXCEPT !.pending = fabricData, !.alias = TRUE,
                                     !.orphans = <<>>, !.result = "none",
                                     !.applies = @ + 1]
       IN  IF fabricData = "null"
           THEN /\ fabric' = [fabric EXCEPT !.result = "false", !.applies = @ + 1]
                /\ meshes' = recover(fabric.manager, meshes)
                /\ UNCHANGED <<mapper, jacket, timers>>
           ELSE IF material = "none"
           THEN /\ fabric' = started
                /\ UNCHANGED <<mapper, jacket, meshes, timers>>
           ELSE LET r == finishApply(started, material, variant, mapper, jacket,
                                     meshes, timers)
                IN  /\ fabric' = r.fabric
                    /\ mapper' = r.mapper
                    /\ jacket' = r.jacket
                    /\ meshes' = r.meshes
                    /\ timers' = r.timers
    /\ UNCHANGED <<variant, now, calls, last, calcVars, smoothing, estimate, camera,
                   renderer, aiVars>>

\* applyFabric(fabricData) up to its first real suspension: the garment and
\* its meshes are captured; a material that needs no load is applied at
\* once, otherwise the call waits for the texture loads; a null fabric raises
\* at the first statement and the catch block runs
Fabric_applyFabric(fabricData) ==
    /\ fabric.pending = "none"
    /\ fabric.applies < MaxApplies
    /\ LET material == syncMaterial(fabric.manager, fabricData)
           started == [fabric EXCEPT !.pending = fabricData, !.alias = TRUE,
                                     !.orphans = <<>>, !.result = "none",
                                     !.applies = @ + 1]
       IN  IF fabricData = "null"
           THEN /\ fabric' = [fabric EXCEPT !.result = "false", !.applies = @ + 1]
                /\ meshes' = recover(fabric.manager, meshes)
                /\ UNCHANGED <<mapper, jacket, timers>>
           ELSE IF ~jacket.loaded \/ Len(getMeshes(meshes).value) = 0
           THEN /\ fabric' = [fabric EXCEPT !.result = "false", !.applies = @ + 1]
                /\ UNCHANGED <<mapper, jacket, meshes, timers>>
           ELSE IF material = "none"
           THEN /\ fabric' = started
                /\ UNCHANGED <<mapper, jacket, meshes, timers>>
           ELSE LET r == finishApply(started, material, variant, mapper, jacket,
                                     meshes, timers)
                IN  /\ fabric' = r.fabric
                    /\ mapper' = r.mapper
                    /\ jacket' = r.jacket
                    /\ meshes' = r.meshes
                    /\ timers' = r.timers
    /\ UNCHANGED <<variant, now, calls, last, calcVars, smoothing, estimate, camera,
                   renderer, aiVars>>

\* the texture loads settle and applyFabric resumes; when they fail part_000
\* falls back to a colour material and part_001 gives up
Fabric_texturesLoaded(ok) ==
    /\ fabric.pending # "none"
    /\ IF ~ok /\ fabric.manager = "part_001"
       THEN /\ fabric' = [fabric EXCEPT !.pending = "none", !.result = "false"]
            /\ UNCHANGED <<mapper, jacket, meshes, timers>>
       ELSE LET r == finishApply(fabric, IF ok THEN "texture" ELSE "fallback",
                                 variant, mapper, jacket, meshes, timers)
            IN  /\ fabric' = r.fabric
                /\ mapper' = r.mapper
                /\ jacket' = r.jacket
                /\ meshes' = r.meshes
                /\ timers' = r.timers
    /\ UNCHANGED <<variant, now, calls, last, calcVars, smoothing, estimate, camera,
                   renderer, aiVars>>

\* modelLoader.dispose() is called; a pending applyFabric keeps the meshes
\* it captured
Loader_dispose ==
    /\ LET r == dispose(jacket, meshes)
       IN  /\ jacket' = r.jacket
           /\ meshes' = r.meshes
    /\ fabric' = IF fabric.pending # "none" /\ fabric.alias
                 THEN [fabric EXCEPT !.alias = FALSE, !.orphans = meshes]
                 ELSE fabric
    /\ UNCHANGED <<variant, mapper, timers, now, calls, last, calcVars, smoothing,
                   estimate, camera, renderer, aiVars>>

\* modelLoader.setVisible(visible) is called: the garment meshes are given
\* the flag, the root is not assigned
Loader_setVisible(visible) ==
    /\ meshes' = setVisible(jacket, meshes, visible)
    /\ UNCHANGED <<variant, mapper, jacket, timers, now, calls, last, calcVars,
                   smoothing, estimate, sceneVars, aiVars>>

-----------------------------------------------------------------------------
(* AIPipeline of src/frontend/js/ai-pipeline.js: the WebSocket, the
   reconnects and the keyframe timer. Times are in ms. *)

MAX_RECONNECT_ATTEMPTS == 3
RECONNECT_DELAY == 5000
ConnectTimeout == 5000

\* the number of times the server accepts a connection, and the number of
\* start() calls made by the application
MaxOpens == 2
MaxStarts == 2

\* the amounts by which time advances between two events
PipelineSteps == {2500, 5000}

\* the pipeline as constructed. ws is the state of the WebSocket last
\* created; awaiting names the caller still waiting for connect() to settle;
\* connectTimer and waitTimer hold the time left of the pending 5 s timeout
\* and of the pending reconnect delay; intervals counts the setInterval
\* timers created and not cleared; sinceClose is the time passed since the
\* reconnect was scheduled, attempts the connections started by
\* handleDisconnect() since a socket last opened; fellBack tells that init()
\* ended in its disabled branch or in its catch block
NewPipeline(enabled) ==
    [enabled |-> enabled, ws |-> "none", isConnected |-> FALSE,
     reconnectAttempts |-> 0, failedPermanently |-> FALSE,
     keyframeInterval |-> FALSE, intervals |-> 0,
     init |-> "idle", fellBack |-> FALSE, awaiting |-> "none",
     connectTimer |-> <<>>, waitTimer |-> <<>>,
     sinceClose |-> 0, attempts |-> 0, opens |-> 0, starts |-> 0,
     closing |-> "none", closeCalled |-> FALSE, op |-> "new"]

\* connect(): a new WebSocket and the 5 s timeout, on behalf of caller
connect(p, caller) ==
    [p EXCEPT !.ws = "connecting", !.awaiting = caller,
              !.connectTimer = <<ConnectTimeout>>]

\* start(): the keyframe timer, only on a connected pipeline that has not
\* failed; an earlier timer is not cleared
AIPipeline_start(p) ==
    IF ~p.isConnected \/ p.failedPermanently
    THEN p
    ELSE [p EXCEPT !.keyframeInterval = TRUE, !.intervals = @ + 1]

\* the catch block of init()
initFailed(p) ==
    [p EXCEPT !.failedPermanently = TRUE, !.init = "resolved", !.fellBack = TRUE,
              !.awaiting = "none"]

\* connect() has rejected: init() fails gracefully, handleDisconnect() logs
rejected(p) ==
    CASE p.awaiting = "init" -> initFailed(p)
      [] p.awaiting = "reconnect" -> [p EXCEPT !.awaiting = "none"]
      [] OTHER -> p

\* handleDisconnect() with a delay that grows linearly
handleDisconnect_linear(p) ==
    LET k == p.reconnectAttempts + 1
    IN  IF p.reconnectAttempts >= MAX_RECONNECT_ATTEMPTS
        THEN [p EXCEPT !.failedPermanently = TRUE]
        ELSE [p EXCEPT !.reconnectAttempts = k,
                       !.waitTimer = <<RECONNECT_DELAY * k>>,
                       !.sinceClose = 0]

\* handleDisconnect() up to its await of the delay
handleDisconnect(p) ==
    LET k == p.reconnectAttempts + 1
    IN  IF p.reconnectAttempts >= MAX_RECONNECT_ATTEMPTS
        THEN [p EXCEPT !.failedPermanently = TRUE]
        ELSE [p EXCEPT !.reconnectAttempts = k,
                       !.waitTimer = <<RECONNECT_DELAY * 2 ^ (k - 1)>>,
                       !.sinceClose = 0]

\* ws.onopen, and the continuation of the caller that awaits connect()
onopen(p) ==
    LET opened == [p EXCEPT !.ws = "open", !.isConnected = TRUE,
                            !.reconnectAttempts = 0, !.failedPermanently = FALSE,
                            !.connectTimer = <<>>, !.attempts = 0,
                            !.awaiting = "none"]
    IN  CASE p.awaiting = "init" -> [opened EXCEPT !.init = "resolved"]
          [] p.awaiting = "reconnect" -> AIPipeline_start(opened)
          [] OTHER -> opened

\* ws.onclose
onclose(p) ==
    LET closed == [p EXCEPT !.ws = "closed", !.isConnected = FALSE,
                            !.connectTimer = <<>>]
    IN  IF ~closed.failedPermanently THEN handleDisconnect(closed) ELSE closed

\* init() is called
Pipeline_init ==
    /\ pipeline.init = "idle"
    /\ pipeline' = IF ~pipeline.enabled
                   THEN [pipeline EXCEPT !.failedPermanently = TRUE,
                                         !.init = "resolved", !.fellBack = TRUE,
                                         !.closeCalled = FALSE, !.op = "init"]
                   ELSE [connect([pipeline EXCEPT !.init = "pending"], "init")
                            EXCEPT !.closeCalled = FALSE, !.op = "init"]
    /\ UNCHANGED <<mapperVars, calcVars, smoothing, estimate, sceneVars, selector, uiVars>>

\* the server accepts the connection: the open event
Socket_open ==
    /\ pipeline.ws = "connecting"
    /\ pipeline.opens < MaxOpens
    /\ pipeline' = [onopen(pipeline) EXCEPT !.opens = @ + 1, !.op = "open"]
    /\ UNCHANGED <<mapperVars, calcVars, smoothing, estimate, sceneVars, selector, uiVars>>

\* the connection fails before it opens: the error event rejects connect(),
\* the caller's catch block runs, then the close event is delivered
Socket_fail ==
    /\ pipeline.ws = "connecting"
    /\ pipeline' = [onclose(rejected(pipeline)) EXCEPT !.op = "fail"]
    /\ UNCHANGED <<mapperVars, calcVars, smoothing, estimate, sceneVars, selector, uiVars>>

\* an open connection is lost: the close event
Socket_close ==
    /\ pipeline.ws = "open"
    /\ pipeline' = [onclose(pipeline) EXCEPT !.op = "close"]
    /\ UNCHANGED <<mapperVars, calcVars, smoothing, estimate, sceneVars, selector, uiVars>>

\* the 5 s timeout of connect() fires with no connection open: connect()
\* rejects (the timeout raced in init() fires after it, on a settled promise)
Pipeline_timeout ==
    /\ pipeline.connectTimer = <<0>>
    /\ pipeline' = [(IF ~pipeline.isConnected THEN rejected(pipeline) ELSE pipeline)
                        EXCEPT !.connectTimer = <<>>, !.op = "timeout"]
    /\ UNCHANGED <<mapperVars, calcVars, smoothing, estimate, sceneVars, selector, uiVars>>

\* the reconnect delay is over: handleDisconnect() calls connect()
Pipeline_reconnect ==
    /\ pipeline.waitTimer = <<0>>
    /\ pipeline' = [connect(pipeline, "reconnect")
                        EXCEPT !.waitTimer = <<>>, !.attempts = @ + 1,
                               !.op = "reconnect"]
    /\ UNCHANGED <<mapperVars, calcVars, smoothing, estimate, sceneVars, selector, uiVars>>

\* time passes, up to the next pending timer
Pipeline_elapse(dt) ==
    /\ pipeline.connectTimer # <<>> \/ pipeline.waitTimer # <<>>
    /\ \A i \in DOMAIN pipeline.connectTimer : dt <= pipeline.connectTimer[i]
    /\ \A i \in DOMAIN pipeline.waitTimer : dt <= pipeline.waitTimer[i]
    /\ pipeline' = [pipeline EXCEPT
                        !.connectTimer = [i \in DOMAIN @ |-> @[i] - dt],
                        !.waitTimer = [i \in DOMAIN @ |-> @[i] - dt],
                        !.sinceClose = IF pipeline.waitTimer # <<>> THEN @ + dt ELSE @,
                        !.op = "elapse"]
    /\ UNCHANGED <<mapperVars, calcVars, smoothing, estimate, sceneVars, selector, uiVars>>

\* the application calls start()
Pipeline_start ==
    /\ pipeline.starts < MaxStarts
    /\ pipeline' = [AIPipeline_start(pipeline) EXCEPT !.starts = @ + 1, !.op = "start"]
    /\ UNCHANGED <<mapperVars, calcVars, smoothing, estimate, sceneVars, selector, uiVars>>

\* stop(): clears the timer whose handle keyframeInterval holds
AIPipeline_stop(p) ==
    IF p.keyframeInterval
    THEN [p EXCEPT !.keyframeInterval = FALSE, !.intervals = @ - 1]
    ELSE p

\* close(): stop(), ws.close() and ws = null. closing is the state the
\* socket was in, when its close event is still to be delivered; closeCalled
\* records that close() was the last call of the application besides start()
\* and stop()
AIPipeline_close(p) ==
    [AIPipeline_stop(p) EXCEPT
        !.closing = IF p.ws \in {"connecting", "open"} THEN p.ws ELSE @,
        !.ws = "none", !.isConnected = FALSE, !.closeCalled = TRUE]

\* the events of the socket that close() closed: for a connecting socket the
\* error event, which rejects connect(), then ws.onclose
closedEvents(p) ==
    LET settled == IF p.closing = "connecting"
                   THEN [rejected(p) EXCEPT !.connectTimer = <<>>]
                   ELSE p
        closed == [settled EXCEPT !.isConnected = FALSE, !.closing = "none"]
    IN  IF ~closed.failedPermanently THEN handleDisconnect(closed) ELSE closed

\* the application calls stop()
Pipeline_stop ==
    /\ pipeline' = [AIPipeline_stop(pipeline) EXCEPT !.op = "stop"]
    /\ UNCHANGED <<mapperVars, calcVars, smoothing, estimate, sceneVars, selector, uiVars>>

\* the application calls close()
Pipeline_close ==
    /\ pipeline.closing = "none"
    /\ pipeline' = [AIPipeline_close(pipeline) EXCEPT !.op = "closeCall"]
    /\ UNCHANGED <<mapperVars, calcVars, smoothing, estimate, sceneVars, selector, uiVars>>

\* the close event of the socket that close() closed is delivered
Socket_closed ==
    /\ pipeline.closing # "none"
    /\ pipeline' = [closedEvents(pipeline) EXCEPT !.op = "closed"]
    /\ UNCHANGED <<mapperVars, calcVars, smoothing, estimate, sceneVars, selector, uiVars>>

-----------------------------------------------------------------------------
(* SmartKeyframeSelector of src/unnamed/part_005. Times are in ms,
   qualities and movement in thousandths. *)

minQuality == 750
minInterval == 2000
maxInterval == 5000
movementThreshold == 80
ForcedQuality == 500

\* the number of times the clock advances, and the amounts it advances by
MaxTicks == 4
SelectorSteps == {1, 1999, 3000}

\* the frames, by the quality frameAnalyzer.assess() finds, and the poses
\* given to shouldSendKeyframe() and recordKeyframe()
FrameQualities == {749, 750, ONE}
SelectorPoses == {"null", "front", "low", "malformed"}

NoAnswer == [should |-> FALSE, reason |-> "none", quality |-> 0]

\* the selector as constructed; lastKeyframe is the pose of the keyframe
\* last recorded ("none": this.lastKeyframe is null), clock is
\* performance.now(), asked the arguments of the last shouldSendKeyframe()
NewSelector ==
    [lastKeyframe |-> "none", lastKeyframeTime |-> 0, clock |-> 0, ticks |-> 0,
     asked |-> [frame |-> 0, pose |-> "null"], answer |-> NoAnswer, op |-> "new"]

\* calculateMovement(pose1, pose2): the mean distance of the key points
\* present in both poses, 1.0 without two landmark arrays
calculateMovement(pose1, pose2) ==
    LET both == {k \in EmaKeyPoints :
                    pose1.landmarks[k].present /\ pose2.landmarks[k].present}
        distance == [k \in both |->
                        LET p1 == pose1.landmarks[k]
                            p2 == pose2.landmarks[k]
                            dx == Sub(p2.x, p1.x)
                            dy == Sub(p2.y, p1.y)
                            dz == Sub(OrZero(p2.z), OrZero(p1.z))
                        IN  Sqrt(Add(Add(Sq(dx), Sq(dy)), Sq(dz)))]
        totalMovement == SumOver(distance, both)
    IN  IF pose1.isNull \/ pose2.isNull \/ ~pose1.hasLandmarks \/ ~pose2.hasLandmarks
        THEN ONE
        ELSE IF both # {} THEN Over(totalMovement, Cardinality(both)) ELSE 0

\* the last keyframe exists and has a pose
HasKeyframePose(sel) == sel.lastKeyframe # "none" /\ ~PoseData(sel.lastKeyframe).isNull

\* shouldSendKeyframe() without its minimum-interval test
shouldSendKeyframe_noMinInterval(sel, frameQuality, id) ==
    LET elapsed == sel.clock - sel.lastKeyframeTime
        poseQuality == assess(PoseData(id))
    IN  IF elapsed > maxInterval
        THEN [should |-> TRUE, reason |-> "Max interval reached",
              quality |-> ForcedQuality]
        ELSE IF Lt(frameQuality, minQuality)
        THEN [should |-> FALSE, reason |-> "Frame quality too low", quality |-> 0]
        ELSE IF Lt(poseQuality, minQuality)
        THEN [should |-> FALSE, reason |-> "Pose quality too low", quality |-> 0]
        ELSE IF /\ HasKeyframePose(sel)
                /\ Gt(calculateMovement(PoseData(id), PoseData(sel.lastKeyframe)),
                      movementThreshold)
        THEN [should |-> FALSE, reason |-> "Too much movement", quality |-> 0]
        ELSE [should |-> TRUE, reason |-> "High quality keyframe",
              quality |-> Over(Add(frameQuality, poseQuality), 2)]

\* shouldSendKeyframe(currentFrame, currentPose): the answer it resolves with
shouldSendKeyframe(sel, frameQuality, id) ==
    LET elapsed == sel.clock - sel.lastKeyframeTime
        poseQuality == assess(PoseData(id))
    IN  IF elapsed < minInterval
        THEN [should |-> FALSE, reason |-> "Too soon after last keyframe",
              quality |-> 0]
        ELSE IF elapsed > maxInterval
        THEN [should |-> TRUE, reason |-> "Max interval reached",
              quality |-> ForcedQuality]
        ELSE IF Lt(frameQuality, minQuality)
        THEN [should |-> FALSE, reason |-> "Frame quality too low", quality |-> 0]
        ELSE IF Lt(poseQuality, minQuality)
        THEN [should |-> FALSE, reason |-> "Pose quality too low", quality |-> 0]
        ELSE IF /\ HasKeyframePose(sel)
                /\ Gt(calculateMovement(PoseData(id), PoseData(sel.lastKeyframe)),
                      movementThreshold)
        THEN [should |-> FALSE, reason |-> "Too much movement", quality |-> 0]
        ELSE [should |-> TRUE, reason |-> "High quality keyframe",
              quality |-> Over(Add(frameQuality, poseQuality), 2)]

\* time passes
Selector_tick(dt) ==
    /\ selector.ticks < MaxTicks
    /\ selector' = [selector EXCEPT !.clock = @ + dt, !.ticks = @ + 1, !.op = "tick"]
    /\ UNCHANGED <<mapperVars, calcVars, smoothing, estimate, sceneVars, pipeline, uiVars>>

Selector_shouldSendKeyframe(frameQuality, id) ==
    /\ selector' = [selector EXCEPT
                        !.asked = [frame |-> frameQuality, pose |-> id],
                        !.answer = shouldSendKeyframe(selector, frameQuality, id),
                        !.op = "shouldSendKeyframe"]
    /\ UNCHANGED <<mapperVars, calcVars, smoothing, estimate, sceneVars, pipeline, uiVars>>

\* recordKeyframe(frame, pose, quality)
Selector_recordKeyframe(id) ==
    /\ selector' = [selector EXCEPT !.lastKeyframe = id,
                                    !.lastKeyframeTime = selector.clock,
                                    !.op = "recordKeyframe"]
    /\ UNCHANGED <<mapperVars, calcVars, smoothing, estimate, sceneVars, pipeline, uiVars>>

-----------------------------------------------------------------------------
(* CameraManager.init() of src/frontend/js/camera.js: full constraints, then
   minimal constraints, then demo mode *)

\* the number of init() calls in a run
MaxCameraInits == 3

\* the ways getUserMedia() settles: the stream, or the error's name
MediaOutcomes == {"granted", "NotAllowedError", "NotFoundError", "NotReadableError",
                  "OverconstrainedError", "TypeError"}

\* the manager as constructed. phase is the await init() is suspended at;
\* result is what init() resolved with: the video's or the demo canvas's size;
\* stream is what the video element plays
NewCameraManager ==
    [phase |-> "idle", isActive |-> FALSE, isDemoMode |-> FALSE, result |-> "none",
     error |-> "none", stream |-> "none", inits |-> 0]

\* initDemoMode() up to its 100 ms wait; when its try block raises
\* (fails), the catch block returns the canvas size at once
initDemoMode(c, fails) ==
    IF fails
    THEN [c EXCEPT !.phase = "resolved", !.isActive = TRUE, !.result = "canvas"]
    ELSE [c EXCEPT !.phase = "demoWaiting", !.isDemoMode = TRUE, !.stream = "canvas"]

\* the catch block of init(): minimal constraints for an over-constrained
\* request, demo mode for every other error
initCatch(c, name, fails) ==
    IF name = "OverconstrainedError"
    THEN [c EXCEPT !.phase = "minimalRequesting", !.error = name]
    ELSE initDemoMode([c EXCEPT !.error = name], fails)

\* init() is called; without the camera API it enters demo mode
Camera_init(api, fails) ==
    /\ cameraManager.phase \in {"idle", "resolved"}
    /\ cameraManager.inits < MaxCameraInits
    /\ LET c == [cameraManager EXCEPT !.inits = @ + 1, !.result = "none",
                                      !.error = "none"]
       IN  cameraManager' = IF api THEN [c EXCEPT !.phase = "enumerating"]
                            ELSE initDemoMode(c, fails)
    /\ UNCHANGED <<mapperVars, calcVars, smoothing, estimate, sceneVars, pipeline,
                   selector, fabricSelector>>

\* enumerateDevices() settles: no video input, some, or an error, which is
\* caught and ignored
Camera_enumerated(found, fails) ==
    /\ cameraManager.phase = "enumerating"
    /\ cameraManager' = IF found = "none"
                        THEN initDemoMode(cameraManager, fails)
                        ELSE [cameraManager EXCEPT !.phase = "requesting"]
    /\ UNCHANGED <<mapperVars, calcVars, smoothing, estimate, sceneVars, pipeline,
                   selector, fabricSelector>>

\* getUserMedia(constraints) settles
Camera_getUserMedia(outcome, fails) ==
    /\ cameraManager.phase = "requesting"
    /\ cameraManager' = IF outcome = "granted"
                        THEN [cameraManager EXCEPT !.phase = "waitingVideo",
                                                   !.stream = "camera"]
                        ELSE initCatch(cameraManager, outcome, fails)
    /\ UNCHANGED <<mapperVars, calcVars, smoothing, estimate, sceneVars, pipeline,
                   selector, fabricSelector>>

\* loadedmetadata fires and play() settles: init() resolves with the video
\* size, or the rejection of play() is caught
Camera_loadedMetadata(played, fails) ==
    /\ cameraManager.phase = "waitingVideo"
    /\ cameraManager' = IF played
                        THEN [cameraManager EXCEPT !.phase = "resolved",
                                                   !.isActive = TRUE,
                                                   !.result = "video"]
                        ELSE initCatch(cameraManager, "NotAllowedError", fails)
    /\ UNCHANGED <<mapperVars, calcVars, smoothing, estimate, sceneVars, pipeline,
                   selector, fabricSelector>>

\* the 10 s timeout of init() fires before the video is ready
Camera_videoTimeout(fails) ==
    /\ cameraManager.phase = "waitingVideo"
    /\ cameraManager' = initCatch(cameraManager, "Error", fails)
    /\ UNCHANGED <<mapperVars, calcVars, smoothing, estimate, sceneVars, pipeline,
                   selector, fabricSelector>>

\* getUserMedia({video: true}) of initWithMinimalConstraints() settles
Camera_minimalGetUserMedia(outcome, fails) ==
    /\ cameraManager.phase = "minimalRequesting"
    /\ cameraManager' = IF outcome = "granted"
                        THEN [cameraManager EXCEPT !.phase = "minimalWaiting",
                                                   !.stream = "camera"]
                        ELSE initDemoMode([cameraManager EXCEPT !.error = outcome],
                                          fails)
    /\ UNCHANGED <<mapperVars, calcVars, smoothing, estimate, sceneVars, pipeline,
                   selector, fabricSelector>>

\* loadedmetadata fires in initWithMinimalConstraints(): play() settling
\* either way resolves the wait, which has no timeout
Camera_minimalLoadedMetadata ==
    /\ cameraManager.phase = "minimalWaiting"
    /\ cameraManager' = [cameraManager EXCEPT !.phase = "resolved",
                                              !.isActive = TRUE, !.result = "video"]
    /\ UNCHANGED <<mapperVars, calcVars, smoothing, estimate, sceneVars, pipeline,
                   selector, fabricSelector>>

\* the 100 ms wait of initDemoMode() is over
Camera_demoTimer ==
    /\ cameraManager.phase = "demoWaiting"
    /\ cameraManager' = [cameraManager EXCEPT !.phase = "resolved",
                                              !.isActive = TRUE, !.result = "canvas"]
    /\ UNCHANGED <<mapperVars, calcVars, smoothing, estimate, sceneVars, pipeline,
                   selector, fabricSelector>>

-----------------------------------------------------------------------------
(* FabricSelector.selectFabric() of src/frontend/js/fabric-selector.js *)

\* the number of selectFabric() calls in a run
MaxSelects == 4

\* the fabrics a click or a scan passes to selectFabric(); a null fabric
\* raises at fabric.name
SelectableFabrics == {"null", "denim", "silk"}

\* the selector as constructed. inFlight holds the fabrics of the
\* applyFabric() calls that have not settled; applied is how the last one did
NewFabricSelector ==
    [isLoading |-> FALSE, selectedFabric |-> "none", inFlight |-> <<>>,
     applied |-> "none", selects |-> 0, op |-> "new"]

\* selectFabric() without the test of isLoading
selectFabric_noGuard(s, choice) ==
    IF choice = "null"
    THEN [s EXCEPT !.isLoading = FALSE, !.op = "threw"]
    ELSE [s EXCEPT !.isLoading = TRUE, !.inFlight = Append(@, choice),
                   !.op = "started"]

\* selectFabric() up to its await of applyFabric(): it returns at once while
\* isLoading; an exception before the await runs the catch and finally blocks
selectFabric(s, choice) ==
    IF s.isLoading
    THEN [s EXCEPT !.op = "ignored"]
    ELSE IF choice = "null"
         THEN [s EXCEPT !.isLoading = FALSE, !.op = "threw"]
         ELSE [s EXCEPT !.isLoading = TRUE, !.inFlight = Append(@, choice),
                        !.op = "started"]

\* selectFabric() after applyFabric() call i has settled with true or false,
\* or raised; the finally block clears isLoading
afterApply(s, i, success) ==
    [s EXCEPT !.selectedFabric = IF success = "true" THEN s.inFlight[i] ELSE @,
              !.inFlight = SubSeq(@, 1, i - 1) \o SubSeq(@, i + 1, Len(@)),
              !.applied = success, !.isLoading = FALSE, !.op = "applied"]

\* a fabric item is clicked, or a scan selects its fabric
FabricSelector_selectFabric(choice) ==
    /\ fabricSelector.selects < MaxSelects
    /\ fabricSelector' = [selectFabric(fabricSelector, choice) EXCEPT !.selects = @ + 1]
    /\ UNCHANGED <<mapperVars, calcVars, smoothing, estimate, sceneVars, pipeline,
                   selector, cameraManager>>

\* an applyFabric() call settles
FabricSelector_applied(i, success) ==
    /\ i \in DOMAIN fabricSelector.inFlight
    /\ fabricSelector' = afterApply(fabricSelector, i, success)
    /\ UNCHANGED <<mapperVars, calcVars, smoothing, estimate, sceneVars, pipeline,
                   selector, cameraManager>>

\* the camera manager and the fabric selector as constructed
UiIdle == cameraManager = NewCameraManager /\ fabricSelector = NewFabricSelector

\* the pipeline as constructed, with AI_PIPELINE.ENABLED as configured, the
\* selector and the camera manager as constructed
AiIdle == pipeline = NewPipeline(FALSE) /\ selector = NewSelector /\ UiIdle

\* no video element yet, the renderer and the materials manager as constructed
SceneIdle ==
    /\ camera = NoCamera
    /\ renderer = NewRenderer(0)
    /\ fabric = NewFabric("part_000")
    /\ AiIdle

-----------------------------------------------------------------------------
(* Specification *)

Variants == {"ema", "simple", "kalman"}

InitialMapper(v) ==
    CASE v = "ema" -> EmaMapper
      [] v = "simple" -> SimpleMapper
      [] v = "kalman" -> KalmanMapper

Init ==
    /\ variant \in Variants
    /\ mapper = InitialMapper(variant)
    /\ jacket = NoJacket
    /\ meshes = <<>>
    /\ timers = 0
    /\ now = 0
    /\ calls = 0
    /\ last = [op |-> "new", pose |-> "-", outcome |-> "done",
               accepted |-> FALSE, tracked |-> FALSE]
    /\ calcIn = FrontLandmarks
    /\ calcOut = Result("none", Ok(0))
    /\ smoothing = NoSmoothing
    /\ estimate = NoEstimate
    /\ SceneIdle

Next ==
    \/ LoadJacket
    \/ Ema_init
    \/ \E id \in PoseIds : Ema_update(id)
    \/ Ema_forceShowJacket
    \/ Ema_reset
    \/ \E params \in CalibrationParams : Ema_updateCalibration(params)
    \/ Simple_init
    \/ Simple_timer
    \/ \E id \in PoseIds : Simple_update(id)
    \/ Simple_forceShowJacket
    \/ Simple_reset
    \/ Kalman_init
    \/ \E id \in PoseIds, dt \in Elapsed : Kalman_update(id, dt)
    \/ Kalman_reset
    \/ Kalman_forceShowJacket
    \/ Kalman_hideJacket
    \/ \E params \in CalibrationParams : Kalman_updateCalibration(params)

Spec == Init /\ [][Next]_vars

\* the pure calculations on every landmark set of the grid
InitCalc ==
    /\ variant = "ema"
    /\ mapper = InitialMapper(variant)
    /\ jacket = NoJacket
    /\ meshes = <<>>
    /\ timers = 0
    /\ now = 0
    /\ calls = 0
    /\ last = [op |-> "new", pose |-> "-", outcome |-> "done",
               accepted |-> FALSE, tracked |-> FALSE]
    /\ calcIn \in CalcInputs \cup MissingShoulderInputs
    /\ calcOut = Result("none", Ok(0))
    /\ smoothing = NoSmoothing
    /\ estimate = NoEstimate
    /\ SceneIdle

NextCalc ==
    \/ Calc_calculateShoulderPosition
    \/ Calc_calculateBodyRotation
    \/ Calc_calculateShoulderScale
    \/ Calc_calculatePosition
    \/ Calc_calculateRotation
    \/ Calc_calculateScale
    \/ Calc_Config_calculateScale
    \/ Calc_calculateEnhancedPosition
    \/ Calc_calculateEnhancedRotation
    \/ Calc_calculateEnhancedScale

SpecCalc == InitCalc /\ [][NextCalc]_vars

\* the mapper as constructed, no garment loaded, no call made
MapperIdle ==
    /\ variant = "ema"
    /\ mapper = InitialMapper(variant)
    /\ jacket = NoJacket
    /\ meshes = <<>>
    /\ timers = 0
    /\ now = 0
    /\ calls = 0
    /\ last = [op |-> "new", pose |-> "-", outcome |-> "done",
               accepted |-> FALSE, tracked |-> FALSE]

CalcIdle == calcIn = FrontLandmarks /\ calcOut = Result("none", Ok(0))

\* a smoothing memory, a raw value and a coefficient; then frame after frame
InitSmooth ==
    /\ MapperIdle
    /\ CalcIdle
    /\ SceneIdle
    /\ estimate = NoEstimate
    /\ \/ smoothing \in [kind : {"ema"}, memory : EmaMemories, raw : RawValues,
                         alpha : SmoothingAlphas, frames : {0}]
       \/ smoothing \in [kind : {"kalman"}, memory : KalmanMemories, raw : RawValues,
                         alpha : {0}, frames : {0}]

NextSmooth == Smooth_applySmoothing \/ Smooth_KalmanFilter_update

SpecSmooth == InitSmooth /\ [][NextSmooth]_vars

\* a pose; then one of the estimators is applied to it
InitEstimate ==
    /\ MapperIdle
    /\ CalcIdle
    /\ SceneIdle
    /\ smoothing = NoSmoothing
    /\ estimate \in [pose : EstimatePoses, fn : {"none"}, thrown : {FALSE}, value : {0}]

NextEstimate ==
    \/ Estimate_assess
    \/ Estimate_calculateConfidence
    \/ Estimate_Kalman_calculateConfidence

SpecEstimate == InitEstimate /\ [][NextEstimate]_vars

\* the video element, if any, with or without data; the viewport
Cameras ==
    {c \in [hasVideo : BOOLEAN, ready : BOOLEAN, aspect : Aspects,
             frustum : {NoCamera.frustum}] :
        c.ready => c.hasVideo}

\* the renderer, its video-ready poll and its render loop as time passes
InitRender ==
    /\ MapperIdle
    /\ CalcIdle
    /\ smoothing = NoSmoothing
    /\ estimate = NoEstimate
    /\ camera \in Cameras
    /\ renderer = NewRenderer(now)
    /\ fabric = NewFabric("part_000")
    /\ AiIdle

NextRender ==
    \/ Camera_loadedData
    \/ \E dt \in FrameElapsed : Tick(dt)
    \/ Renderer_init
    \/ \E stale \in BOOLEAN : Renderer_poll(stale)
    \/ Renderer_start
    \/ Renderer_stop
    \/ Renderer_frame
    \/ \E aspect \in Aspects : Renderer_onResize(aspect)
    \/ Renderer_dispose

SpecRender == InitRender /\ [][NextRender]_vars

\* the renderer's poll and the mapper's retry timer while the renderer and
\* the garment are set up and torn down
InitTeardown ==
    /\ variant = "simple"
    /\ mapper = InitialMapper(variant)
    /\ jacket = NoJacket
    /\ meshes = <<>>
    /\ timers = 0
    /\ now = 0
    /\ calls = 0
    /\ last = [op |-> "new", pose |-> "-", outcome |-> "done",
               accepted |-> FALSE, tracked |-> FALSE]
    /\ CalcIdle
    /\ smoothing = NoSmoothing
    /\ estimate = NoEstimate
    /\ camera \in Cameras
    /\ renderer = NewRenderer(now)
    /\ fabric = NewFabric("part_000")
    /\ AiIdle

NextTeardown ==
    \/ Camera_loadedData
    \/ Renderer_init
    \/ \E stale \in BOOLEAN : Renderer_poll(stale)
    \/ Renderer_dispose
    \/ LoadJacket
    \/ Loader_dispose
    \/ Simple_init
    \/ Simple_timer

SpecTeardown == InitTeardown /\ [][NextTeardown]_vars

\* the garment, the materials manager and the video background
InitScene ==
    /\ variant \in Variants
    /\ mapper = InitialMapper(variant)
    /\ jacket = NoJacket
    /\ meshes = <<>>
    /\ timers = 0
    /\ now = 0
    /\ calls = 0
    /\ last = [op |-> "new", pose |-> "-", outcome |-> "done",
               accepted |-> FALSE, tracked |-> FALSE]
    /\ CalcIdle
    /\ smoothing = NoSmoothing
    /\ estimate = NoEstimate
    /\ camera \in Cameras
    /\ renderer = NewRenderer(now)
    /\ fabric \in {NewFabric(manager) : manager \in Managers}
    /\ AiIdle

NextScene ==
    \/ Camera_loadedData
    \/ Renderer_init
    \/ \E stale \in BOOLEAN : Renderer_poll(stale)
    \/ \E aspect \in Aspects : Renderer_onResize(aspect)
    \/ Renderer_dispose
    \/ LoadJacket
    \/ Loader_dispose
    \/ \E fabricData \in Fabrics : Fabric_applyFabric(fabricData)
    \/ \E ok \in BOOLEAN : Fabric_texturesLoaded(ok)
    \/ Simple_timer

SpecScene == InitScene /\ [][NextScene]_vars

\* the video plane as the viewport is resized and the camera moved
InitResize ==
    /\ MapperIdle
    /\ CalcIdle
    /\ smoothing = NoSmoothing
    /\ estimate = NoEstimate
    /\ camera \in {c \in [hasVideo : BOOLEAN, ready : BOOLEAN, aspect : Aspects,
                            frustum : FrustumHeights] : c.ready => c.hasVideo}
    /\ renderer = NewRenderer(now)
    /\ fabric = NewFabric("part_000")
    /\ AiIdle

NextResize ==
    \/ Camera_loadedData
    \/ \E frustum \in FrustumHeights : Camera_moved(frustum)
    \/ Renderer_init
    \/ \E stale \in BOOLEAN : Renderer_poll(stale)
    \/ \E aspect \in Aspects : Renderer_onResize(aspect)
    \/ Renderer_dispose

SpecResize == InitResize /\ [][NextResize]_vars

-----------------------------------------------------------------------------
(* Properties *)

\* the clamp range of the deployed mapper
MinScale ==
    CASE variant = "ema" -> EmaMinScale
      [] variant = "simple" -> SimpleMinScale
      [] variant = "kalman" -> KalmanMinScale
MaxScale ==
    CASE variant = "ema" -> EmaMaxScale
      [] variant = "simple" -> SimpleMaxScale
      [] variant = "kalman" -> KalmanMaxScale

\* the smoothing memory: the EMA buffer, or the Kalman estimates and covariances
SmoothingMemory == IF variant = "kalman" THEN mapper.filters ELSE mapper.smoothBuffer
ConfidenceHistory == IF variant = "kalman" THEN mapper.confidenceHistory ELSE <<>>
TrackingFlags ==
    CASE variant = "ema" -> <<mapper.isTracking, mapper.hasShownJacket>>
      [] variant = "simple" -> <<mapper.hasSetInitialPosition>>
      [] variant = "kalman" -> <<mapper.isTracking>>
Transform(j) == <<j.position, j.rotation, j.scale>>

\* this step is a call of update()
UpdateStep == calls' = calls + 1 /\ last'.op = "update"

\* the confidence the deployed mapper computes for a pose
PoseConfidence(id) ==
    IF variant = "kalman"
    THEN Kalman_calculateConfidence(PoseData(id).landmarks).value
    ELSE calculateConfidence(PoseData(id).landmarks).value

\* a pose of 33 landmarks whose confidence is below the mapper's threshold
BelowThreshold(id) ==
    /\ variant # "simple"
    /\ ~PoseData(id).isNull
    /\ HasLandmarks(PoseData(id))
    /\ Lt(PoseConfidence(id), mapper.minConfidence)

NullOrShort(id) ==
    \/ PoseData(id).isNull
    \/ PoseData(id).hasLandmarks /\ PoseData(id).length < 33

\* the default transform of the deployed mapper (the Kalman mapper has none)
AtDefaultTransform(j) ==
    CASE variant = "ema" ->
            /\ j.position = Vec3(0, 0, mapper.calibration.depthOffset)
            /\ j.rotation = Vec3(PI, PI, 0)
            /\ j.scale = Vec3(EmaDefaultScale, EmaDefaultScale, EmaDefaultScale)
      [] variant = "simple" ->
            /\ j.position = Vec3(0, 0, 0)
            /\ j.rotation = Vec3(0, PI, 0)
            /\ j.scale = Vec3(SimpleDefaultScale, SimpleDefaultScale, SimpleDefaultScale)
      [] variant = "kalman" -> TRUE

FiniteVec(v) == IsNum(v.x) /\ IsNum(v.y) /\ IsNum(v.z)

\* C1: right after every update() that applied a transform, the uniform scale
\* set on the garment root is a number within the mapper's clamp range
\* [minScale, maxScale], from the first accepted frame on.
C1_ScaleWithinClampRange ==
    (last.op = "update" /\ last.outcome = "accepted")
        => /\ IsNum(jacket.scale.x)
           /\ jacket.scale.x >= MinScale
           /\ jacket.scale.x <= MaxScale

\* C2: for every pair of present shoulder landmarks, whatever their
\* coordinates, the raw scale returned by each scale calculation lies between
\* the lower and the upper clamp bound of that calculation.
C2_RawScaleClamped ==
    /\ calcIn["LEFT_SHOULDER"].present
    /\ calcIn["RIGHT_SHOULDER"].present
    => CASE calcOut.fn = "calculateShoulderScale" ->
                calcOut.value >= EmaMinScale /\ calcOut.value <= EmaMaxScale
         [] calcOut.fn = "calculateScale" ->
                calcOut.value >= SimpleMinScale /\ calcOut.value <= SimpleMaxScale
         [] calcOut.fn = "Config_calculateScale" ->
                calcOut.value >= 2000 /\ calcOut.value <= 4000
         [] calcOut.fn = "calculateEnhancedScale" ->
                calcOut.value >= KalmanMinScale /\ calcOut.value <= KalmanMaxScale
         [] OTHER -> TRUE

\* C2 witness: the scale of the EMA mapper has been computed for shoulders
\* as far apart as the coordinate grid allows, and it is the upper bound.
C2_Witness ==
    /\ calcIn["LEFT_SHOULDER"].x = 0 - MaxCoord * ONE
    /\ calcIn["RIGHT_SHOULDER"].x = MaxCoord * ONE
    /\ calcOut.fn = "calculateShoulderScale"
    /\ calcOut.value = EmaMaxScale

\* C3: once the garment is visible and a pose has been accepted, an update()
\* carrying a null pose or a pose whose confidence is below the threshold
\* does not set the garment's visible flag to false.
C3_NoHideOnPoseLoss ==
    [][(/\ UpdateStep
        /\ jacket.visible
        /\ last.accepted
        /\ (last'.pose = "null" \/ BelowThreshold(last'.pose)))
       => jacket'.visible]_vars

\* C4: an update() whose pose has a confidence below minConfidence leaves the
\* smoothing memory and the garment's position, rotation and scale unchanged.
C4_LowConfidenceLeavesState ==
    [][(UpdateStep /\ BelowThreshold(last'.pose))
       => /\ SmoothingMemory' = SmoothingMemory
          /\ Transform(jacket') = Transform(jacket)]_vars

\* C5: for an initialized mapper with a loaded garment that has accepted no
\* pose yet, update(null) leaves the garment visible at the default transform.
C5_NullPoseYieldsDefault ==
    [][(/\ UpdateStep
        /\ last'.pose = "null"
        /\ mapper.initialized
        /\ jacket.loaded
        /\ ~last.accepted)
       => jacket'.visible /\ AtDefaultTransform(jacket')]_vars

\* C6 as stated: after at least one accepted pose, an update() with a null
\* pose or fewer than 33 landmarks leaves the garment's transform and the
\* smoothing memory as they were.
C6_PoseLossHoldsTransform ==
    [][(UpdateStep /\ last.accepted /\ NullOrShort(last'.pose))
       => /\ Transform(jacket') = Transform(jacket)
          /\ SmoothingMemory' = SmoothingMemory]_vars

\* C6 amended: after a pose has been accepted and with no reset() since, an
\* update() with a null pose or fewer than 33 landmarks leaves the garment's
\* transform and the smoothing memory as they were.
C6_PoseLossHoldsTransformSinceReset ==
    [][(UpdateStep /\ last.tracked /\ NullOrShort(last'.pose))
       => /\ Transform(jacket') = Transform(jacket)
          /\ SmoothingMemory' = SmoothingMemory]_vars

\* C6 witness: update() was called with fewer than 33 landmarks after an
\* accepted pose, and the garment still carries a tracked transform.
C6_Witness ==
    /\ last.op = "update"
    /\ last.pose = "short"
    /\ last.tracked
    /\ jacket.visible
    /\ jacket.position # Vec3(0, 0, 0)

\* C7: before init() has been called, update(pose) changes no field of the
\* mapper and no property of the garment, for every pose.
C7_UpdateBeforeInitIsNoOp ==
    [][(UpdateStep /\ ~mapper.initialized)
       => UNCHANGED <<mapper, jacket, meshes, timers>>]_vars

\* C7 witness: update() was called with a full pose on a mapper that is not
\* initialized while the garment is loaded.
C7_Witness ==
    /\ last.op = "update"
    /\ last.pose = "front"
    /\ ~mapper.initialized
    /\ jacket.loaded

\* C8: update(pose) returns normally for every pose value: no exception
\* reaches the caller.
C8_UpdateNeverThrows == last.op = "update" => last.outcome # "thrown"

\* C8 witness: update() was called with a pose whose right shoulder is
\* missing, a calculation raised, and the exception was caught inside.
C8_Witness ==
    /\ last.op = "update"
    /\ last.pose = "noRightShoulder"
    /\ last.outcome = "caught"

\* C9: when the transform computation inside update() raises, the garment
\* transform, the smoothing memory, the confidence history and the tracking
\* flags are left as update(null) leaves them: unchanged.
C9_ErrorTreatedAsAbsence ==
    [][(UpdateStep /\ last'.outcome = "caught")
       => /\ Transform(jacket') = Transform(jacket)
          /\ SmoothingMemory' = SmoothingMemory
          /\ ConfidenceHistory' = ConfidenceHistory
          /\ TrackingFlags' = TrackingFlags]_vars

\* C10: with the right shoulder missing, the position, rotation and scale
\* calculations of every mapper return without raising, with finite numbers:
\* the configured default where the mapper has one.
C10_MissingShoulderGivesDefault ==
    ~calcIn["RIGHT_SHOULDER"].present
    => CASE calcOut.fn = "none" -> TRUE
         [] calcOut.fn = "calculateShoulderPosition" ->
                calcOut.value = Vec3(0, 0, EmaCalibration.depthOffset)
         [] calcOut.fn = "calculateBodyRotation" -> calcOut.value = Vec3(PI, PI, 0)
         [] calcOut.fn = "calculateShoulderScale" -> calcOut.value = EmaDefaultScale
         [] calcOut.fn = "calculatePosition" -> calcOut.value = Vec3(0, 0, 0)
         [] calcOut.fn = "calculateRotation" -> calcOut.value = Vec3(0, PI, 0)
         [] calcOut.fn = "calculateScale" -> calcOut.value = SimpleDefaultScale
         [] calcOut.fn = "Config_calculateScale" -> calcOut.value = CONFIG_JACKET.SCALE
         [] calcOut.fn = "calculateEnhancedPosition" ->
                ~calcOut.thrown /\ FiniteVec(calcOut.value)
         [] calcOut.fn = "calculateEnhancedRotation" ->
                ~calcOut.thrown /\ FiniteVec(calcOut.value)
         [] calcOut.fn = "calculateEnhancedScale" ->
                ~calcOut.thrown /\ IsNum(calcOut.value)

\* a freshly constructed and initialized mapper with the calibration of the
\* deployed one
FreshMapper ==
    LET m == [InitialMapper(variant) EXCEPT !.width = 640, !.height = 480,
                                            !.initialized = TRUE]
    IN  IF variant = "simple" THEN m ELSE [m EXCEPT !.calibration = mapper.calibration]

\* the garment after update(id) at time t on mapper m
UpdatedJacket(m, id, t) ==
    CASE variant = "ema" -> Ema_updated(m, jacket, id).jacket
      [] variant = "simple" -> Simple_updated(m, jacket, meshes, timers, id).jacket
      [] variant = "kalman" -> Kalman_updated(m, jacket, id, t).jacket

\* C11: an update(p) that follows reset() on an initialized mapper leaves the
\* garment with the position, rotation, scale and visibility that update(p)
\* on a freshly constructed and initialized mapper with the same calibration
\* gives it.
C11_ResetThenUpdateAsFresh ==
    [][(UpdateStep /\ last.op = "reset" /\ mapper.initialized)
       => LET fresh == UpdatedJacket(FreshMapper, last'.pose, now')
          IN  /\ Transform(jacket') = Transform(fresh)
              /\ jacket'.visible = fresh.visible]_vars

\* the rotation channels of the smoothing memory
RotationMemory ==
    IF variant = "kalman"
    THEN Vec3(mapper.filters.rotX.x, mapper.filters.rotY.x, mapper.filters.rotZ.x)
    ELSE mapper.smoothBuffer.rotation

\* the rotation the mapper computes when a shoulder is missing; the Kalman
\* mapper has no such branch, its base is the rotation of zero pitch, yaw, roll
DefaultRotation ==
    LET noShoulder == [FrontLandmarks EXCEPT !["RIGHT_SHOULDER"] = Missing]
    IN  CASE variant = "ema" -> calculateBodyRotation(noShoulder)
          [] variant = "simple" -> calculateRotation(noShoulder)
          [] variant = "kalman" -> Vec3(PI, PI, 0)

\* C12: right after reset(), the rotation channels of the smoothing memory
\* hold the mapper's default 'facing camera' rotation, which is not zero.
C12_ResetRotationIsBase ==
    last.op = "reset"
        => RotationMemory = DefaultRotation /\ RotationMemory # Vec3(0, 0, 0)

\* C13: whatever the starting memory and the coefficient, after
\* ConvergeFrames accepted frames fed the same raw value every channel's
\* smoothed value is a number within Epsilon of that raw value, and it stays
\* so on every later frame.
C13_SmoothingConverges ==
    smoothing.frames >= ConvergeFrames
        => \A v \in SmoothedChannels :
              IsNum(v) /\ Abs(Sub(v, smoothing.raw)) <= Epsilon

\* C14: the confidence or quality computed for a landmark set whose present
\* landmarks have coordinates and a visibility in [0,1] is a number within
\* [0,1], also when every key point is missing.
C14_ConfidenceInUnitRange ==
    (estimate.fn # "none" /\ WellFormed(estimate.pose.landmarks))
        => /\ ~estimate.thrown
           /\ IsNum(estimate.value)
           /\ estimate.value >= 0
           /\ estimate.value <= ONE

\* C14 witness: the Kalman mapper's confidence of the fully visible frontal
\* pose, where mean visibility plus bonuses exceeds 1, is 1.
C14_Witness ==
    /\ estimate.fn = "Kalman_calculateConfidence"
    /\ estimate.pose = PoseData("front")
    /\ estimate.value = ONE

\* C15: for a null pose, and for a pose with fewer than 33 landmarks, the
\* quality estimator returns 0 and raises no error.
C15_NoPoseGivesZero ==
    (/\ estimate.fn = "assess"
     /\ \/ estimate.pose.isNull
        \/ estimate.pose.hasLandmarks /\ estimate.pose.length < 33)
        => ~estimate.thrown /\ estimate.value = 0

\* C16: after forceShowJacket() is called while the garment model is
\* loaded, the garment is visible and at the mapper's default transform,
\* whatever the tracking state and the transform were before.
C16_ForceShowAppliesDefault ==
    [][(calls' = calls + 1 /\ last'.op = "forceShowJacket" /\ jacket.loaded)
       => jacket'.visible /\ AtDefaultTransform(jacket')]_vars

\* C17: after dispose() a timer scheduled earlier mutates nothing. A
\* waitForVideo poll that predates the renderer's dispose() creates no
\* video texture and adds no plane to the scene, and the mapper's retry
\* timer, firing when the garment is gone, neither moves nor shows it.
C17_NoTimerEffectAfterDispose ==
    [][/\ Renderer_poll(TRUE)
            => /\ renderer'.videoTexture = renderer.videoTexture
               /\ renderer'.videoPlane = renderer.videoPlane
               /\ renderer'.scenePlanes = renderer.scenePlanes
       /\ (Simple_timer /\ ~jacket.loaded)
            => /\ jacket' = jacket
               /\ meshes' = meshes]_vars

\* C18: when the garment has been disposed while applyFabric() was waiting
\* for its textures, the resumed applyFabric gives no mesh a material,
\* shows nothing and does not record the fabric as the current one.
C18_DisposedGarmentNotTouched ==
    [][((\E ok \in BOOLEAN : Fabric_texturesLoaded(ok)) /\ ~fabric.alias)
            => /\ fabric'.orphans = fabric.orphans
               /\ meshes' = meshes
               /\ jacket'.visible = jacket.visible
               /\ fabric'.currentFabric = fabric.currentFabric]_vars

\* the target frame interval less the tolerance has not passed between the
\* times a and b: b - a < 1000 / TARGET_FPS - ThrottleTolerance
TooEarly(a, b) == (b - a) * TARGET_FPS < 1000 - ThrottleTolerance * TARGET_FPS

\* C19: while the loop runs, a frame callback that comes too early after
\* the last rendered frame draws nothing, leaves lastRenderTime alone and
\* still has the next callback scheduled; hence two draws of the loop are
\* never closer together than the target interval less the tolerance.
C19_ThrottleSkipsEarlyFrames ==
    [][/\ (/\ Renderer_frame
            /\ renderer.isRunning
            /\ renderer.lastDraw >= 0
            /\ TooEarly(renderer.lastDraw, now))
            => /\ ~renderer'.drew
               /\ renderer'.lastRenderTime = renderer.lastRenderTime
               /\ renderer'.animationId
       /\ renderer'.prevDraw >= 0
            => ~TooEarly(renderer'.prevDraw, renderer'.lastDraw)]_vars

\* the loop has drawn twice and the callback after that came too early
C19_Witness ==
    /\ renderer.op = "frame"
    /\ renderer.isRunning
    /\ ~renderer.drew
    /\ renderer.animationId
    /\ renderer.prevDraw >= 0
    /\ TooEarly(renderer.lastDraw, now)

\* C20: once the video plane exists, in every state, whatever fabrics have
\* been applied and however the viewport has been resized, the plane's
\* render-order key is strictly lower than that of every garment mesh.
C20_VideoPlaneRendersFirst ==
    renderer.videoPlane.exists
        => \A i \in DOMAIN meshes :
              renderer.videoPlane.renderOrder < meshes[i].renderOrder

\* the plane exists and has been rescaled, and part_002 has given the
\* garment meshes a fabric
C20_Witness ==
    /\ renderer.videoPlane.exists
    /\ renderer.videoPlane.scaleX # ONE
    /\ fabric.manager = "part_002"
    /\ fabric.currentFabric = "color"
    /\ Len(meshes) = NumMeshes
    /\ \A i \in DOMAIN meshes : meshes[i].material = "color"

\* the plane's geometry size times its scale is the frustum's size for the
\* camera, to within one step of the scale's resolution
FillsFrustum(plane, cam) ==
    /\ plane.width * plane.scaleX <= planeWidth(cam) * ONE
    /\ planeWidth(cam) * ONE < plane.width * (plane.scaleX + 1)
    /\ plane.height * plane.scaleY <= planeHeight(cam) * ONE
    /\ planeHeight(cam) * ONE < plane.height * (plane.scaleY + 1)

\* C21: once a viewport resize has been handled, the plane's world size
\* (geometry size times scale) is the size of the camera's frustum at the
\* plane's depth for the new aspect: height 2 * tan(fov / 2) * distance and
\* width that height times the aspect.
C21_ResizedPlaneFillsFrustum ==
    [][((\E aspect \in Aspects : Renderer_onResize(aspect)) /\ renderer.videoPlane.exists)
            => FillsFrustum(renderer'.videoPlane, camera')]_vars

\* a resize has been handled for a plane created under another aspect and
\* another camera distance
C21_Witness ==
    /\ renderer.op = "onResize"
    /\ renderer.videoPlane.exists
    /\ renderer.videoPlane.scaleX # ONE
    /\ renderer.videoPlane.scaleY # ONE
    /\ FillsFrustum(renderer.videoPlane, camera)

\* the raw scale the mapper of variant v computes for a landmark set under
\* a calibration record
RawScale(v, calibration, landmarks) ==
    CASE v = "ema" -> calculateShoulderScale(landmarks, calibration)
      [] v = "kalman" -> calculateEnhancedScale(landmarks, calibration)
      [] OTHER -> calculateScale(landmarks)

\* C22: the calibration record drives the scale clamp: once
\* updateCalibration({minScale: a, maxScale: b}) with a <= b has been
\* called, every raw scale lies in [a, b]; and updateCalibration changes
\* exactly the keys it is given and no other calibration value.
C22_CalibrationDrivesClamp ==
    [][(calls' = calls + 1 /\ last'.op = "updateCalibration")
            => /\ \E params \in CalibrationParams :
                    /\ DOMAIN mapper'.calibration
                            = DOMAIN mapper.calibration \cup DOMAIN params
                    /\ \A k \in DOMAIN params : mapper'.calibration[k] = params[k]
                    /\ \A k \in DOMAIN mapper.calibration \ DOMAIN params :
                            mapper'.calibration[k] = mapper.calibration[k]
               /\ ({"minScale", "maxScale"} \subseteq DOMAIN mapper'.calibration
                   /\ mapper'.calibration.minScale <= mapper'.calibration.maxScale)
                    => \A id \in {"front", "low"} :
                          LET scale == RawScale(variant, mapper'.calibration,
                                                PoseData(id).landmarks)
                          IN  /\ IsNum(scale)
                              /\ scale >= mapper'.calibration.minScale
                              /\ scale <= mapper'.calibration.maxScale]_vars

\* ---- the initial-position poll of SkeletonMapper ----

\* the mapper is created before the garment is loaded; init(), update(),
\* the arrival of the garment and the timers are the only steps
InitPoll ==
    /\ variant = "simple"
    /\ mapper = InitialMapper(variant)
    /\ jacket = NoJacket
    /\ meshes = <<>>
    /\ timers = 0
    /\ now = 0
    /\ calls = 0
    /\ last = [op |-> "new", pose |-> "-", outcome |-> "done",
               accepted |-> FALSE, tracked |-> FALSE]
    /\ CalcIdle
    /\ smoothing = NoSmoothing
    /\ estimate = NoEstimate
    /\ SceneIdle

NextPoll ==
    \/ Simple_init
    \/ LoadJacket
    \/ Simple_timer
    \/ \E id \in PoseIds : Simple_update(id)

\* a pending setTimeout callback is run by the event loop
SpecPoll == InitPoll /\ [][NextPoll]_vars /\ WF_vars(Simple_timer)

\* the garment placed by setInitialPosition()
InitialPositionSet ==
    /\ mapper.hasSetInitialPosition
    /\ jacket.loaded
    /\ jacket.visible
    /\ AtDefaultTransform(jacket)

\* C23: when init() was called before the garment was loaded and the
\* garment is loaded later, the poll alone eventually applies the default
\* transform, shows the garment and records that the initial position is set
C23_PollSetsInitialPosition ==
    (mapper.initialized /\ jacket.loaded /\ ~mapper.hasSetInitialPosition)
        ~> InitialPositionSet

C23_Witness ==
    /\ InitialPositionSet
    /\ last.op = "timer"
    /\ timers = 0
    /\ \A i \in DOMAIN meshes : meshes[i].visible

\* C24: right after an update() call that accepts a pose and applies a
\* transform to the garment, the garment is visible
C24_AcceptedUpdateShowsGarment ==
    [][(calls' = calls + 1 /\ last'.op = "update" /\ last'.outcome = "accepted")
            => jacket'.loaded /\ jacket'.visible]_vars

\* an accepted update of the first mapper before its forced show: the
\* garment is visible through the assignment that follows the transform
C24_Witness ==
    /\ variant = "ema"
    /\ last.op = "update"
    /\ last.outcome = "accepted"
    /\ ~mapper.hasShownJacket
    /\ mapper.updateCount <= EmaShowAfter
    /\ jacket.visible

\* ---- the visibility of the loaded garment ----

NextLoader ==
    \/ LoadJacket
    \/ \E visible \in BOOLEAN : Loader_setVisible(visible)
    \/ Loader_dispose
    \/ Simple_init
    \/ Simple_timer

SpecLoader == InitPoll /\ [][NextLoader]_vars

LevelShoulders(landmarks) ==
    /\ landmarks["LEFT_SHOULDER"].present
    /\ landmarks["RIGHT_SHOULDER"].present
    /\ landmarks["LEFT_SHOULDER"].y = landmarks["RIGHT_SHOULDER"].y
    /\ landmarks["LEFT_SHOULDER"].z = landmarks["RIGHT_SHOULDER"].z
    /\ landmarks["LEFT_SHOULDER"].x < landmarks["RIGHT_SHOULDER"].x

\* C26: for level shoulders at the same depth, the right one at the larger
\* x, the raw rotation is the base rotation (roll 0, no added yaw) and the
\* raw scale is the shoulder width times scaleMultiplier, clamped to the
\* scale range
C26_LevelShouldersRawTransform ==
    LevelShoulders(calcIn)
        => /\ calcOut.fn = "calculateBodyRotation"
                => calcOut.value = Vec3(PI, PI, 0)
           /\ calcOut.fn = "calculateShoulderScale"
                => calcOut.value
                     = clamp(Mul(calcIn["RIGHT_SHOULDER"].x - calcIn["LEFT_SHOULDER"].x,
                                 EmaCalibration.scaleMultiplier),
                             EmaMinScale, EmaMaxScale)

\* the scenario left (0.4, 0.5, 0), right (0.6, 0.5, 0): the rotation has
\* been computed
C26_Witness ==
    /\ calcIn["LEFT_SHOULDER"] = Pt(400, 500, 0, 1000)
    /\ calcIn["RIGHT_SHOULDER"] = Pt(600, 500, 0, 1000)
    /\ calcOut.fn = "calculateBodyRotation"
    /\ calcOut.value.z = 0

\* ---- the AI pipeline ----

InitPipeline ==
    /\ MapperIdle
    /\ CalcIdle
    /\ smoothing = NoSmoothing
    /\ estimate = NoEstimate
    /\ camera = NoCamera
    /\ renderer = NewRenderer(0)
    /\ fabric = NewFabric("part_000")
    /\ pipeline \in {NewPipeline(enabled) : enabled \in BOOLEAN}
    /\ selector = NewSelector
    /\ UiIdle

NextPipeline ==
    \/ Pipeline_init
    \/ Socket_open
    \/ Socket_fail
    \/ Socket_close
    \/ Pipeline_timeout
    \/ Pipeline_reconnect
    \/ \E dt \in PipelineSteps : Pipeline_elapse(dt)
    \/ Pipeline_start

SpecPipeline == InitPipeline /\ [][NextPipeline]_vars

\* the pipeline has given up: the maximum is reached and the flag is set
GaveUp ==
    /\ pipeline.reconnectAttempts = MAX_RECONNECT_ATTEMPTS
    /\ pipeline.failedPermanently

\* C27: after a disconnect at most MAX_RECONNECT_ATTEMPTS reconnects are
\* started, the k-th one RECONNECT_DELAY * 2^(k-1) ms after it was scheduled;
\* reconnectAttempts never exceeds the maximum; a disconnect that finds the
\* maximum reached sets failedPermanently and schedules nothing, and from
\* then on no connection attempt is started
C27_ReconnectsBoundedWithBackoff ==
    /\ [](/\ pipeline.reconnectAttempts <= MAX_RECONNECT_ATTEMPTS
          /\ pipeline.attempts <= MAX_RECONNECT_ATTEMPTS)
    /\ [][Pipeline_reconnect
            => /\ pipeline'.attempts = pipeline.reconnectAttempts
               /\ pipeline.sinceClose
                    = RECONNECT_DELAY * 2 ^ (pipeline'.attempts - 1)]_vars
    /\ [][((Socket_fail \/ Socket_close)
                /\ pipeline.reconnectAttempts = MAX_RECONNECT_ATTEMPTS)
            => pipeline'.failedPermanently /\ pipeline'.waitTimer = <<>>]_vars
    /\ [][GaveUp => /\ GaveUp'
                    /\ pipeline'.ws = "closed"
                    /\ pipeline'.waitTimer = <<>>]_vars

\* the third reconnect, started 20 s after it was scheduled, has failed and
\* the pipeline has given up
C27_Witness ==
    /\ GaveUp
    /\ pipeline.op = "fail"
    /\ pipeline.attempts = MAX_RECONNECT_ATTEMPTS
    /\ pipeline.sinceClose = RECONNECT_DELAY * 2 ^ (MAX_RECONNECT_ATTEMPTS - 1)

\* isActive()
isActive(p) == p.isConnected /\ ~p.failedPermanently

\* C28: init() ends by resolving; when it ends because the pipeline is
\* disabled, the connection failed or nothing opened within 5 s,
\* failedPermanently is true, and from then on the pipeline stays inactive:
\* no keyframe timer is created and no reconnect is scheduled or started,
\* whatever the socket does later
C28_FailedInitStaysInactive ==
    /\ [][(pipeline.init # "resolved" /\ pipeline'.init = "resolved"
                /\ pipeline'.fellBack)
            => pipeline'.failedPermanently]_vars
    /\ [](pipeline.fellBack
            => /\ ~isActive(pipeline)
               /\ pipeline.intervals = 0
               /\ pipeline.waitTimer = <<>>
               /\ pipeline.ws # "connecting" \/ pipeline.awaiting # "reconnect")

\* ---- the keyframe selector ----

InitSelector ==
    /\ MapperIdle
    /\ CalcIdle
    /\ smoothing = NoSmoothing
    /\ estimate = NoEstimate
    /\ SceneIdle

NextSelector ==
    \/ \E dt \in SelectorSteps : Selector_tick(dt)
    \/ \E frameQuality \in FrameQualities, id \in SelectorPoses :
            Selector_shouldSendKeyframe(frameQuality, id)
    \/ \E id \in SelectorPoses : Selector_recordKeyframe(id)

SpecSelector == InitSelector /\ [][NextSelector]_vars

\* the time since the keyframe last recorded, at the last call
SinceKeyframe == selector.clock - selector.lastKeyframeTime

C30_ForcedAfterMaxIntervalElseQuality ==
    selector.op = "shouldSendKeyframe"
        => /\ SinceKeyframe > maxInterval => selector.answer.should
           /\ (SinceKeyframe <= maxInterval /\ selector.answer.should)
                => LET poseQuality == assess(PoseData(selector.asked.pose))
                       movement == calculateMovement(PoseData(selector.asked.pose),
                                                     PoseData(selector.lastKeyframe))
                   IN  /\ selector.asked.frame >= minQuality
                       /\ IsNum(poseQuality) /\ poseQuality >= minQuality
                       /\ HasKeyframePose(selector)
                            => IsNum(movement) /\ movement <= movementThreshold

\* ---- applyFabric of the four materials managers ----

\* the managers of part_000, part_001, part_002 and materials.js, and the
\* fabrics given to applyFabric, null included
AllManagers == Managers \cup {"materials"}
AllFabrics == Fabrics \cup {"null"}

InitFabric ==
    /\ variant \in Variants
    /\ mapper = InitialMapper(variant)
    /\ jacket = NoJacket
    /\ meshes = <<>>
    /\ timers = 0
    /\ now = 0
    /\ calls = 0
    /\ last = [op |-> "new", pose |-> "-", outcome |-> "done",
               accepted |-> FALSE, tracked |-> FALSE]
    /\ CalcIdle
    /\ smoothing = NoSmoothing
    /\ estimate = NoEstimate
    /\ camera = NoCamera
    /\ renderer = NewRenderer(0)
    /\ fabric \in {NewFabric(manager) : manager \in AllManagers}
    /\ AiIdle

NextFabric ==
    \/ LoadJacket
    \/ Loader_dispose
    \/ \E visible \in BOOLEAN : Loader_setVisible(visible)
    \/ \E fabricData \in AllFabrics : Fabric_applyFabric(fabricData)
    \/ \E ok \in BOOLEAN : Fabric_texturesLoaded(ok)
    \/ Simple_timer

SpecFabric == InitFabric /\ [][NextFabric]_vars

\* C31: applyFabric ends by returning true or false; called while the
\* garment is not loaded or has no meshes it returns false and leaves
\* currentMaterial, currentFabric and every mesh's material as they were;
\* currentFabric changes only in a call that returns true, to that call's
\* fabric
C31_ApplyFabricFailsSafely ==
    /\ []((fabric.applies > 0 /\ fabric.pending = "none")
            => fabric.result \in {"true", "false"})
    /\ [][\A fabricData \in AllFabrics :
            (Fabric_applyFabric(fabricData) /\ (~jacket.loaded \/ Len(meshes) = 0))
                => /\ fabric'.result = "false"
                   /\ fabric'.pending = "none"
                   /\ fabric'.currentFabric = fabric.currentFabric
                   /\ fabric'.currentMaterial = fabric.currentMaterial
                   /\ meshes' = meshes]_vars
    /\ [][fabric'.currentFabric # fabric.currentFabric
            => /\ fabric'.result = "true"
               /\ fabric'.currentMaterial # "none"
               /\ \/ fabric'.currentFabric = fabric.pending
                  \/ \E fabricData \in Fabrics :
                        Fabric_applyFabric(fabricData)
                            /\ fabric'.currentFabric = fabricData]_vars

\* applyFabric was called with a fabric on a manager that had applied one,
\* after the garment was disposed: false, and the earlier fabric is kept
C31_Witness ==
    /\ fabric.result = "false"
    /\ fabric.pending = "none"
    /\ fabric.currentFabric = "color"
    /\ fabric.currentMaterial = "color"
    /\ fabric.applies = 2
    /\ ~jacket.loaded

\* ---- the camera manager ----

InitCamera ==
    /\ MapperIdle
    /\ CalcIdle
    /\ smoothing = NoSmoothing
    /\ estimate = NoEstimate
    /\ SceneIdle

NextCamera ==
    \/ \E api \in BOOLEAN, fails \in BOOLEAN : Camera_init(api, fails)
    \/ \E found \in {"none", "some", "error"}, fails \in BOOLEAN :
            Camera_enumerated(found, fails)
    \/ \E outcome \in MediaOutcomes, fails \in BOOLEAN :
            Camera_getUserMedia(outcome, fails)
    \/ \E played \in BOOLEAN, fails \in BOOLEAN : Camera_loadedMetadata(played, fails)
    \/ \E fails \in BOOLEAN : Camera_videoTimeout(fails)
    \/ \E outcome \in MediaOutcomes, fails \in BOOLEAN :
            Camera_minimalGetUserMedia(outcome, fails)
    \/ Camera_minimalLoadedMetadata
    \/ Camera_demoTimer

\* the browser settles enumerateDevices() and getUserMedia(), and the timers
\* fire; whether the video ever becomes ready is up to the device
SpecCamera ==
    /\ InitCamera
    /\ [][NextCamera]_vars
    /\ WF_vars(\E found \in {"none", "some", "error"}, fails \in BOOLEAN :
                    Camera_enumerated(found, fails))
    /\ WF_vars(\E outcome \in MediaOutcomes, fails \in BOOLEAN :
                    Camera_getUserMedia(outcome, fails))
    /\ WF_vars(\E fails \in BOOLEAN : Camera_videoTimeout(fails))
    /\ WF_vars(\E outcome \in MediaOutcomes, fails \in BOOLEAN :
                    Camera_minimalGetUserMedia(outcome, fails))
    /\ WF_vars(Camera_demoTimer)

\* init() has resolved with a size and the manager is active
CameraReady ==
    /\ cameraManager.phase = "resolved"
    /\ cameraManager.isActive
    /\ cameraManager.result \in {"video", "canvas"}

\* C32: every init() call completes, whatever fails: it resolves with a
\* size and isActive = true
C32_CameraInitCompletes ==
    (cameraManager.phase \notin {"idle", "resolved"}) ~> CameraReady

\* ---- the pipeline with stop() and close() ----

NextLifecycle ==
    \/ NextPipeline
    \/ Pipeline_stop
    \/ Pipeline_close
    \/ Socket_closed

SpecLifecycle == InitPipeline /\ [][NextLifecycle]_vars

\* C33: after close() the pipeline stays closed: no socket, not connected,
\* and no step schedules a reconnect or creates a keyframe timer
C33_CloseStaysClosed ==
    /\ [](pipeline.closeCalled => (pipeline.ws = "none" /\ ~pipeline.isConnected))
    /\ [][pipeline.closeCalled
            => /\ pipeline'.intervals <= pipeline.intervals
               /\ (pipeline.waitTimer = <<>> => pipeline'.waitTimer = <<>>)]_vars

\* C34: at most one keyframe timer is active at any time, and none after
\* stop()
C34_OneKeyframeTimer ==
    /\ [](pipeline.intervals <= 1)
    /\ [][Pipeline_stop => pipeline'.intervals = 0]_vars

\* ---- the fabric selector ----

NextFabricSelector ==
    \/ \E choice \in SelectableFabrics : FabricSelector_selectFabric(choice)
    \/ \E i \in 1..MaxSelects, success \in {"true", "false", "throw"} :
            FabricSelector_applied(i, success)

SpecFabricSelector == InitCamera /\ [][NextFabricSelector]_vars

\* C35: at most one applyFabric() call of selectFabric() is in flight; a
\* call made while isLoading starts none and leaves selectedFabric alone;
\* isLoading is false whenever no call is in progress; and selectedFabric
\* changes only to the fabric of a call whose applyFabric() returned true
C35_OneSelectAtATime ==
    /\ [](Len(fabricSelector.inFlight) <= 1)
    /\ [](fabricSelector.isLoading <=> Len(fabricSelector.inFlight) = 1)
    /\ [][\A choice \in SelectableFabrics :
            (FabricSelector_selectFabric(choice) /\ fabricSelector.isLoading)
                => /\ fabricSelector'.inFlight = fabricSelector.inFlight
                   /\ fabricSelector'.selectedFabric = fabricSelector.selectedFabric
                   /\ fabricSelector'.isLoading]_vars
    /\ [][fabricSelector'.selectedFabric # fabricSelector.selectedFabric
            => /\ fabricSelector'.op = "applied"
               /\ fabricSelector'.applied = "true"
               /\ fabricSelector.inFlight = <<fabricSelector'.selectedFabric>>]_vars

\* a call was ignored while another fabric is being applied over a selected one
C35_Witness ==
    /\ fabricSelector.op = "ignored"
    /\ fabricSelector.isLoading
    /\ fabricSelector.selectedFabric # "none"
    /\ fabricSelector.inFlight # <<fabricSelector.selectedFabric>>
    /\ fabricSelector.applied = "true"

\* ---- the render loop under any sequence of start() and stop() ----

InitLoop ==
    /\ MapperIdle
    /\ CalcIdle
    /\ smoothing = NoSmoothing
    /\ estimate = NoEstimate
    /\ SceneIdle

NextLoop ==
    \/ \E dt \in FrameElapsed : Tick(dt)
    \/ Loop_start
    \/ Loop_stop
    \/ \E throws \in BOOLEAN : Loop_frame(throws)

SpecLoop == InitLoop /\ [][NextLoop]_vars

\* C36: at most one frame callback is pending; while the loop is stopped
\* none is pending and no frame is drawn; and a frame whose rendering
\* raises leaves the loop running with its next callback pending
C36_OneFrameCallback ==
    /\ [](renderer.callbacks <= 1)
    /\ [](~renderer.isRunning => renderer.callbacks = 0)
    /\ [][~renderer.isRunning
            => /\ renderer'.lastDraw = renderer.lastDraw
               /\ renderer'.prevDraw = renderer.prevDraw
               /\ renderer'.lastRenderTime \in {renderer.lastRenderTime, now}]_vars
    /\ [][(Loop_frame(TRUE) /\ renderer.isRunning)
            => (renderer'.isRunning /\ renderer'.callbacks = 1)]_vars

\* the rendering of a frame raised after an earlier frame had been drawn,
\* and the loop runs on with its next callback pending
C36_Witness ==
    /\ renderer.op = "frameThrew"
    /\ renderer.isRunning
    /\ renderer.callbacks = 1
    /\ renderer.lastDraw >= 0
    /\ renderer.lastRenderTime > renderer.lastDraw

\* C37: while the garment is not loaded at most one retry timer of
\* setInitialPosition() is pending, and none is once the initial position
\* has been set
C37_OneRetryTimer ==
    /\ [](~jacket.loaded => timers <= 1)
    /\ []((variant = "simple" /\ mapper.hasSetInitialPosition) => timers = 0)

\* ---- the video plane under every operation that sets the camera's aspect ----

NextViewport ==
    \/ Camera_loadedData
    \/ Renderer_init
    \/ \E stale \in BOOLEAN : Renderer_poll(stale)
    \/ \E aspect \in Aspects : Renderer_onResize(aspect)
    \/ \E aspect \in Aspects : Scene_updateCamera(aspect)
    \/ \E aspect \in Aspects : Scene_onWindowResize(aspect)
    \/ Renderer_dispose

SpecViewport == InitRender /\ [][NextViewport]_vars

\* the plane's width over its height, geometry size times scale, in
\* thousandths
PlaneAspect(plane) ==
    (((plane.width * plane.scaleX) \div ONE) * ONE)
        \div ((plane.height * plane.scaleY) \div ONE)

\* C38: whenever the video plane exists, its width over its height is the
\* camera's aspect, to within the resolution of the scale
C38_PlaneKeepsCameraAspect ==
    renderer.videoPlane.exists
        => (PlaneAspect(renderer.videoPlane) - camera.aspect) \in -2 .. 2

====
